---- MODULE Spec2Model ----
(***************************************************************************)
(* Parallel relaxation (Jacobi averaging) of a square matrix.              *)
(*                                                                         *)
(* Three programs are modelled; the variable engine says which one runs    *)
(* ("arith" runs the partition arithmetic of the two parallel programs     *)
(* alone, in the width of its C types, for sizes near the limit):          *)
(*   "serial"  : src/average_serial.c lines 1-209, the single-threaded     *)
(*               reference;                                                *)
(*   "pthread" : src/average_serial.c lines 211-676, a pool of worker      *)
(*               threads over two shared matrices and a pthread barrier;   *)
(*   "mpi"     : src/unnamed/part_000, processes exchanging row chunks     *)
(*               with MPI_Scatterv / MPI_Allreduce / MPI_Gatherv.          *)
(*                                                                         *)
(* Cell values are doubles in [0, 1].  They are modelled exactly as        *)
(* integers scaled by Scale = 4^MaxIter: every iteration divides a sum of  *)
(* four cells by 4, so the first MaxIter iterations lose no digit.         *)
(***************************************************************************)
EXTENDS Integers, Sequences, FiniteSets, TLC

\* ------------------------------------------------------------- bounds ----
MaxN == 4
MaxMpiN == 5
MaxThreads == 5
MaxProcs == 3
MaxIter == 3
MaxSeed == 1

RECURSIVE Pow4(_)
Pow4(k) == IF k = 0 THEN 1 ELSE 4 * Pow4(k - 1)

\* The value 1.0
Scale == Pow4(MaxIter)

\* argv[1], atoi'd: the pthread program's and the mpi program's
SizeArgs == 1..MaxN
MpiSizeArgs == 1..MaxMpiN
\* argv[2], atof'd (scaled)
PrecisionArgs == {0, Scale \div 8, Scale \div 2}
\* argv[3], atoi'd (pthread program)
ThreadArgs == 0..MaxThreads
\* MPI_Comm_size
ProcArgs == 1..MaxProcs
\* the state of the pseudo-random generator after srand
Seeds == 0..MaxSeed

None == "none"

Abs(x) == IF x < 0 THEN -x ELSE x

VARIABLES
    engine,             \* which program runs
    size,               \* shared_args.size / size
    precision,          \* shared_args.precision / precision
    seed,               \* generator state set by srand
    threads_arg,        \* argv[3] as atoi returned it (pthread program)
    \* ---- pthread program
    num_threads,        \* shared_args.num_threads
    TPR,                \* THREAD_PRECISION_REACHED
    PRECISION_REACHED,
    bufs,               \* the two matrices: 0 = a / matrix, 1 = new_matrix
    thread_data,        \* thread_args[]
    loc,                \* each thread's locals i, j, c
    pcm,                \* main thread's position
    pct,                \* worker threads' positions
    waiting,            \* threads blocked in pthread_barrier_wait
    barrier_count,      \* the count given to pthread_barrier_init (0: none)
    created,            \* number of pthread_create calls done
    iterations,         \* relax_matrix_parallel's iterations
    result,             \* matrix returned / freed / exit status
    witer,              \* history: the iteration each worker is in
    hist,               \* history: the flags main read at each decision
    ref,                \* history: the same run done by one worker
    bwaits,             \* history: pthread_barrier_wait calls made by each thread
    \* ---- mpi program
    nprocs,             \* num_processes
    mpc,                \* each process's position
    mmatrix,            \* each process's matrix
    counts,             \* each process's scatter/gather counts and displs
    send_buffer,
    recv_buffer,
    local_precision,
    global_precision,
    miter,              \* each process's iterations
    sc_msg,             \* chunks sent by the root's MPI_Scatterv, not yet received
    g_msg,              \* chunks sent to the root's MPI_Gatherv, not yet received
    ar_val,             \* contributions to the running MPI_Allreduce
    ar_left,            \* processes that returned from the running MPI_Allreduce
    mhist,              \* history: the contributions of each completed MPI_Allreduce
    \* ---- serial program
    spc,                \* main's position
    sbufs,              \* the two matrices: 0 = a, 1 = matrix_init()'s copy
    sptr,               \* serial_average_matrix's pointers matrix and new_matrix
    still_changing,
    iteration,
    \* ---- partition arithmetic in 32-bit int and size_t
    apc,                \* position
    acount,             \* argv's thread count / the number of processes
    cells32,            \* cells_per_thread, remainder and thread_data[i].cells
    counts32,           \* the four int arrays of relax_matrix_parallel
    range32             \* start and end of relax_cells, for each rank

argVars == <<engine, size, precision, seed, threads_arg>>
shmVars == <<num_threads, TPR, PRECISION_REACHED, bufs, thread_data, loc, pcm, pct,
             waiting, barrier_count, created, iterations, result, witer, hist, ref,
             bwaits>>
mpiVars == <<nprocs, mpc, mmatrix, counts, send_buffer, recv_buffer, local_precision,
             global_precision, miter, sc_msg, g_msg, ar_val, ar_left, mhist>>
serVars == <<spc, sbufs, sptr, still_changing, iteration>>
ariVars == <<apc, acount, cells32, counts32, range32>>
vars == <<argVars, shmVars, mpiVars, serVars, ariVars>>

\* ======================================================================
\*  pthread program: pure parts
\* ======================================================================

\* rand(): a linear congruential generator; Rand(s, k) is the k-th draw
\* (k = 0, 1, ..) after srand left the state s, as a value of [0, 1].
RECURSIVE Lcg(_, _)
Lcg(x, k) == IF k = 0 THEN x ELSE Lcg((5 * x + 3) % 8, k - 1)
Rand(s, k) == ((Lcg(s, k + 1) \div 2) % 2) * Scale

\* matrix_init, first call: 1 on the top row and the left column, a random
\* value in every other cell, drawn in row-major order.
MatrixInit(n, s) ==
    [i \in 0..(n - 1) |-> [j \in 0..(n - 1) |->
        IF i = 0 \/ j = 0 THEN Scale ELSE Rand(s, (i - 1) * (n - 1) + (j - 1))]]

\* (size - 2) * (size - 2)
InnerCells(n) == (n - 2) * (n - 2)

\* the clamp as it would be with the number of rows taken for the number of
\* cells
ClampThreads_Rows(n, t) == IF t > InnerCells(n) THEN n - 2 ELSE t

\* main: the clamped thread count
ClampThreads(n, t) == IF t > InnerCells(n) THEN InnerCells(n) ELSE t

\* determine_thread_data: remainder
Remainder(inner, cells_per_thread, nthreads) == inner % cells_per_thread

\* relax_cells / determine_thread_data: one step of the row-major walk
NextCell(i, j, n) == IF j + 1 = n - 1 THEN <<i + 1, 1>> ELSE <<i, j + 1>>

\* the start left where it is, so that every run begins at the same cell
AdvanceStart_Stay(start_i, start_j, cells_remaining, n) == <<start_i, start_j>>

\* determine_thread_data: the while loop moving the start past a run
RECURSIVE AdvanceStart(_, _, _, _)
AdvanceStart(start_i, start_j, cells_remaining, n) ==
    IF cells_remaining > 0
    THEN LET nx == NextCell(start_i, start_j, n)
         IN  AdvanceStart(nx[1], nx[2], cells_remaining - 1, n)
    ELSE <<start_i, start_j>>

\* determine_thread_data: the for loop, from thread i on
RECURSIVE ThreadLoop(_, _, _, _, _, _, _)
ThreadLoop(i, start_i, start_j, cells_per_thread, remainder, nthreads, n) ==
    IF i >= nthreads THEN <<>>
    ELSE LET cells == IF remainder > 0 THEN cells_per_thread + 1 ELSE cells_per_thread
             rem2  == IF remainder > 0 THEN remainder - 1 ELSE remainder
             nx    == AdvanceStart(start_i, start_j, cells, n)
         IN  <<[id |-> i, start_i |-> start_i, start_j |-> start_j, cells |-> cells,
                original_matrix |-> 0, new_matrix |-> 1]>>
             \o ThreadLoop(i + 1, nx[1], nx[2], cells_per_thread, rem2, nthreads, n)

\* determine_thread_data (nthreads >= 1 and inner >= nthreads); thread i is
\* element i + 1 of the sequence
DetermineThreadData(n, nthreads) ==
    LET inner == InnerCells(n)
        cells_per_thread == inner \div nthreads
        remainder == Remainder(inner, cells_per_thread, nthreads)
    IN  ThreadLoop(0, 1, 1, cells_per_thread, remainder, nthreads, n)

\* relax_cells: the cells its for loop visits, in order
RECURSIVE RunCells(_, _, _, _)
RunCells(i, j, cells, n) ==
    IF cells = 0 THEN <<>>
    ELSE LET nx == NextCell(i, j, n)
         IN  <<(<<i, j>>)>> \o RunCells(nx[1], nx[2], cells - 1, n)

RunOf(td, n) == RunCells(td.start_i, td.start_j, td.cells, n)

\* relax_cells: new_value
Average(m, i, j) == (m[i][j - 1] + m[i][j + 1] + m[i - 1][j] + m[i + 1][j]) \div 4

\* relax_cells: difference > precision
OutsidePrecision(m, i, j, prec) == Abs(Average(m, i, j) - m[i][j]) > prec

\* the loop without its break: the last flag decides
CheckFlags_NoBreak(flags, i, nthreads, reached) ==
    IF nthreads > 0 THEN flags[nthreads - 1] ELSE reached

\* relax_matrix_parallel: the for loop over THREAD_PRECISION_REACHED
RECURSIVE CheckFlags(_, _, _, _)
CheckFlags(flags, i, nthreads, reached) ==
    IF i >= nthreads THEN reached
    ELSE IF flags[i] = FALSE THEN FALSE
         ELSE CheckFlags(flags, i + 1, nthreads, TRUE)

\* the barrier without a place for the main thread
BarrierCount_NoMain(nthreads) == nthreads

\* pthread_barrier_init(&barrier, NULL, num_threads + 1)
BarrierCount(nthreads) == nthreads + 1

Main == -1
Workers == 0..(num_threads - 1)


\* nothing returned, nothing freed, no exit status yet
NoResult == [status |-> None, returned |-> Main, freed |-> {}]
NoRef == [bufs |-> <<>>, conv |-> FALSE, iter |-> 0]

\* relax_cells run to the end of its for loop by one thread alone: the new
\* matrix (used for the one-worker history run)
RECURSIVE RelaxRun(_, _, _)
RelaxRun(orig, new, cells) ==
    IF cells = <<>> THEN new
    ELSE LET i == Head(cells)[1]
             j == Head(cells)[2]
         IN  RelaxRun(orig, [new EXCEPT ![i][j] = Average(orig, i, j)], Tail(cells))

RunWithinPrecision(orig, cells, prec) ==
    \A k \in 1..Len(cells) : ~OutsidePrecision(orig, cells[k][1], cells[k][2], prec)

\* the run of one worker over the whole interior, one iteration further
RefStep(r, n, prec) ==
    IF r.conv \/ n < 3 THEN r
    ELSE LET run == RunOf(DetermineThreadData(n, 1)[1], n)
             cu  == (r.iter % 2) + 1
             nx  == 3 - cu
         IN  [bufs |-> [r.bufs EXCEPT ![nx] = RelaxRun(r.bufs[cu], r.bufs[nx], run)],
              conv |-> RunWithinPrecision(r.bufs[cu], run, prec),
              iter |-> r.iter + 1]

\* ======================================================================
\*  pthread program: steps
\* ======================================================================

ShmIdle ==
    /\ threads_arg = 0
    /\ num_threads = 0 /\ TPR = <<>> /\ PRECISION_REACHED = FALSE
    /\ bufs = <<>> /\ thread_data = <<>> /\ loc = <<>>
    /\ pcm = None /\ pct = <<>> /\ waiting = {} /\ barrier_count = 0
    /\ created = 0 /\ iterations = 0
    /\ result = NoResult
    /\ witer = <<>> /\ hist = <<>> /\ ref = NoRef /\ bwaits = <<>>

ShmInit ==
    /\ engine = "pthread"
    /\ size \in SizeArgs /\ precision \in PrecisionArgs /\ seed \in Seeds
    /\ threads_arg \in ThreadArgs
    /\ num_threads = threads_arg
    /\ TPR = <<>> /\ PRECISION_REACHED = FALSE
    /\ bufs = <<>> /\ thread_data = <<>> /\ loc = <<>>
    /\ pcm = "start" /\ pct = <<>> /\ waiting = {} /\ barrier_count = 0
    /\ created = 0 /\ iterations = 0
    /\ result = NoResult
    /\ witer = <<>> /\ hist = <<>> /\ ref = NoRef /\ bwaits = <<>>

\* the validation without the test of the precision
InvalidArgs_NoPrecision(n, prec, t) == n < 2 \/ t < 1

\* main: the three tests that end in return 1
InvalidArgs(n, prec, t) == n < 2 \/ prec <= 0 \/ t < 1

\* main: validation of size, precision and num_threads fails
ShmReject ==
    /\ engine = "pthread" /\ pcm = "start"
    /\ InvalidArgs(size, precision, num_threads)
    /\ pcm' = "exited"
    /\ result' = [result EXCEPT !.status = "error"]
    /\ UNCHANGED <<argVars, mpiVars, serVars, ariVars, bwaits, num_threads, TPR, PRECISION_REACHED, bufs,
                   thread_data, loc, pct, waiting, barrier_count, created, iterations,
                   witer, hist, ref>>

\* main: validation passes, num_threads is clamped, the flags are allocated
\* and set
ShmAccept ==
    /\ engine = "pthread" /\ pcm = "start"
    /\ ~InvalidArgs(size, precision, num_threads)
    /\ num_threads' = ClampThreads(size, num_threads)
    /\ TPR' = [i \in 0..(num_threads' - 1) |-> TRUE]
    /\ pcm' = "init"
    /\ UNCHANGED <<argVars, mpiVars, serVars, ariVars, bwaits, PRECISION_REACHED, bufs, thread_data, loc, pct,
                   waiting, barrier_count, created, iterations, result, witer, hist, ref>>

\* main: a = matrix_init()
ShmMatrixInit ==
    /\ engine = "pthread" /\ pcm = "init"
    /\ bufs' = <<MatrixInit(size, seed)>>
    /\ pcm' = "relax"
    /\ UNCHANGED <<argVars, mpiVars, serVars, ariVars, bwaits, num_threads, TPR, PRECISION_REACHED, thread_data,
                   loc, pct, waiting, barrier_count, created, iterations, result, witer,
                   hist, ref>>

\* matrix_init compares shared_args.matrix[i], which malloc left
\* uninitialised, with NULL: when it is not NULL the row is not allocated
\* and the store through it faults
ShmMatrixInitFault ==
    /\ engine = "pthread" /\ pcm = "init"
    /\ pcm' = "crashed"
    /\ result' = [result EXCEPT !.status = "fault"]
    /\ UNCHANGED <<argVars, mpiVars, serVars, ariVars, bwaits, num_threads, TPR, PRECISION_REACHED, bufs,
                   thread_data, loc, pct, waiting, barrier_count, created, iterations,
                   witer, hist, ref>>

\* the setup as it would be with a second matrix filled anew instead of
\* copied
RelaxSetup_FreshMatrix ==
    /\ engine = "pthread" /\ pcm = "relax" /\ num_threads > 0
    /\ bufs' = <<bufs[1], MatrixInit(size, seed + 1)>>
    /\ thread_data' = DetermineThreadData(size, num_threads)
    /\ barrier_count' = BarrierCount(num_threads)
    /\ pct' = [w \in Workers |-> None]
    /\ loc' = [w \in Workers |-> [i |-> 0, j |-> 0, c |-> 0]]
    /\ witer' = [w \in Workers |-> 0]
    /\ bwaits' = [t \in Workers \cup {Main} |-> 0]
    /\ ref' = [bufs |-> <<bufs[1], MatrixInit(size, seed + 1)>>, conv |-> FALSE, iter |-> 0]
    /\ pcm' = "create"
    /\ UNCHANGED <<argVars, mpiVars, serVars, ariVars, num_threads, TPR, PRECISION_REACHED, waiting,
                   created, iterations, result, hist>>

\* relax_matrix_parallel up to pthread_barrier_init: the second matrix is a
\* copy of shared_args.matrix, the thread data is determined
RelaxSetup ==
    /\ engine = "pthread" /\ pcm = "relax" /\ num_threads > 0
    /\ bufs' = <<bufs[1], MatrixInit(size, seed)>>
    /\ thread_data' = DetermineThreadData(size, num_threads)
    /\ barrier_count' = BarrierCount(num_threads)
    /\ pct' = [w \in Workers |-> None]
    /\ loc' = [w \in Workers |-> [i |-> 0, j |-> 0, c |-> 0]]
    /\ witer' = [w \in Workers |-> 0]
    /\ bwaits' = [t \in Workers \cup {Main} |-> 0]
    /\ ref' = [bufs |-> <<bufs[1], MatrixInit(size, seed)>>, conv |-> FALSE, iter |-> 0]
    /\ pcm' = "create"
    /\ UNCHANGED <<argVars, mpiVars, serVars, ariVars, num_threads, TPR, PRECISION_REACHED, waiting,
                   created, iterations, result, hist>>

\* determine_thread_data with num_threads = 0 (size 2): inner_cells / 0, an
\* integer division by zero, modelled as the trap that ends the program
RelaxSetupDivZero ==
    /\ engine = "pthread" /\ pcm = "relax" /\ num_threads = 0
    /\ pcm' = "crashed"
    /\ result' = [result EXCEPT !.status = "fault"]
    /\ UNCHANGED <<argVars, mpiVars, serVars, ariVars, bwaits, num_threads, TPR, PRECISION_REACHED, bufs,
                   thread_data, loc, pct, waiting, barrier_count, created, iterations,
                   witer, hist, ref>>

\* the same division on a target whose divide instruction does not trap:
\* the quotient and the remainder are 0, no thread is created, the barrier
\* is made for the main thread alone
RelaxSetupZeroThreads ==
    /\ engine = "pthread" /\ pcm = "relax" /\ num_threads = 0
    /\ bufs' = <<bufs[1], MatrixInit(size, seed)>>
    /\ thread_data' = ThreadLoop(0, 1, 1, 0, 0, num_threads, size)
    /\ barrier_count' = BarrierCount(num_threads)
    /\ pct' = [w \in Workers |-> None]
    /\ loc' = [w \in Workers |-> [i |-> 0, j |-> 0, c |-> 0]]
    /\ witer' = [w \in Workers |-> 0]
    /\ bwaits' = [t \in Workers \cup {Main} |-> 0]
    /\ ref' = [bufs |-> <<bufs[1], MatrixInit(size, seed)>>, conv |-> FALSE, iter |-> 0]
    /\ pcm' = "b1"
    /\ UNCHANGED <<argVars, mpiVars, serVars, ariVars, num_threads, TPR, PRECISION_REACHED, waiting,
                   created, iterations, result, hist>>

\* relax_matrix_parallel: one pthread_create; the new thread is at the top
\* of relax_cells' loop with i, j at its start
CreateThread ==
    /\ engine = "pthread" /\ pcm = "create" /\ created < num_threads
    /\ pct' = [pct EXCEPT ![created] = "cell"]
    /\ loc' = [loc EXCEPT ![created] = [i |-> thread_data[created + 1].start_i,
                                        j |-> thread_data[created + 1].start_j,
                                        c |-> 0]]
    /\ created' = created + 1
    /\ pcm' = IF created' = num_threads THEN "b1" ELSE "create"
    /\ UNCHANGED <<argVars, mpiVars, serVars, ariVars, bwaits, num_threads, TPR, PRECISION_REACHED, bufs,
                   thread_data, waiting, barrier_count, iterations, result, witer, hist,
                   ref>>

\* pthread_barrier_wait: where a thread waits, and where it goes on
WaitPc(p) ==
    CASE p = "cell" -> "wait1" [] p = "at2" -> "wait2"
      [] p = "b1" -> "wait1" [] p = "b2" -> "wait2" [] p = "b3" -> "wait3"
AfterWorker(p) == CASE p = "wait1" -> "at2" [] p = "wait2" -> "check" [] OTHER -> p
AfterMain(p) ==
    CASE p = "wait1" -> "decide" [] p = "wait2" -> "b1" [] p = "wait3" -> "join"
      [] OTHER -> p

\* pthread_barrier_wait(&barrier) by thread t: the last of barrier_count
\* arrivals releases every waiting thread
BarrierWait(t) ==
    LET pcmW == IF t = Main THEN WaitPc(pcm) ELSE pcm
        pctW == IF t = Main THEN pct ELSE [pct EXCEPT ![t] = WaitPc(pct[t])]
        arrived == waiting \cup {t}
    IN  /\ bwaits' = [bwaits EXCEPT ![t] = bwaits[t] + 1]
        /\ IF Cardinality(arrived) = barrier_count
           THEN /\ waiting' = {}
                /\ pcm' = IF Main \in arrived THEN AfterMain(pcmW) ELSE pcmW
                /\ pct' = [w \in DOMAIN pct |->
                              IF w \in arrived THEN AfterWorker(pctW[w]) ELSE pctW[w]]
           ELSE /\ waiting' = arrived
                /\ pcm' = pcmW
                /\ pct' = pctW

\* the pass with the flag of thread 0 cleared in place of the thread's own
WorkerCell_FirstFlag(w) ==
    /\ engine = "pthread" /\ w \in DOMAIN pct /\ pct[w] = "cell"
    /\ loc[w].c < thread_data[w + 1].cells
    /\ LET td == thread_data[w + 1]
           i  == loc[w].i
           j  == loc[w].j
           nx == NextCell(i, j, size)
       IN  /\ bufs' = [bufs EXCEPT ![td.new_matrix + 1][i][j] =
                                       Average(bufs[td.original_matrix + 1], i, j)]
           /\ TPR' = IF OutsidePrecision(bufs[td.original_matrix + 1], i, j, precision)
                     THEN [TPR EXCEPT ![0] = FALSE] ELSE TPR
           /\ loc' = [loc EXCEPT ![w] = [i |-> nx[1], j |-> nx[2], c |-> loc[w].c + 1]]
    /\ UNCHANGED <<argVars, mpiVars, serVars, ariVars, bwaits, num_threads, PRECISION_REACHED, thread_data, pcm,
                   pct, waiting, barrier_count, created, iterations, result, witer,
                   hist, ref>>

\* relax_cells: one pass of the for loop
WorkerCell(w) ==
    /\ engine = "pthread" /\ w \in DOMAIN pct /\ pct[w] = "cell"
    /\ loc[w].c < thread_data[w + 1].cells
    /\ LET td == thread_data[w + 1]
           i  == loc[w].i
           j  == loc[w].j
           nx == NextCell(i, j, size)
       IN  /\ bufs' = [bufs EXCEPT ![td.new_matrix + 1][i][j] =
                                       Average(bufs[td.original_matrix + 1], i, j)]
           /\ TPR' = IF OutsidePrecision(bufs[td.original_matrix + 1], i, j, precision)
                     THEN [TPR EXCEPT ![w] = FALSE] ELSE TPR
           /\ loc' = [loc EXCEPT ![w] = [i |-> nx[1], j |-> nx[2], c |-> loc[w].c + 1]]
    /\ UNCHANGED <<argVars, mpiVars, serVars, ariVars, bwaits, num_threads, PRECISION_REACHED, thread_data, pcm,
                   pct, waiting, barrier_count, created, iterations, result, witer,
                   hist, ref>>

\* relax_cells: the first pthread_barrier_wait, after the for loop
WorkerBarrier1(w) ==
    /\ engine = "pthread" /\ w \in DOMAIN pct /\ pct[w] = "cell"
    /\ loc[w].c >= thread_data[w + 1].cells
    /\ BarrierWait(w)
    /\ UNCHANGED <<argVars, mpiVars, serVars, ariVars, num_threads, TPR, PRECISION_REACHED, bufs,
                   thread_data, loc, barrier_count, created, iterations, result, witer,
                   hist, ref>>

\* relax_cells: the second pthread_barrier_wait
WorkerBarrier2(w) ==
    /\ engine = "pthread" /\ w \in DOMAIN pct /\ pct[w] = "at2"
    /\ BarrierWait(w)
    /\ UNCHANGED <<argVars, mpiVars, serVars, ariVars, num_threads, TPR, PRECISION_REACHED, bufs,
                   thread_data, loc, barrier_count, created, iterations, result, witer,
                   hist, ref>>

\* relax_cells: if (PRECISION_REACHED) break; return NULL
WorkerExit(w) ==
    /\ engine = "pthread" /\ w \in DOMAIN pct /\ pct[w] = "check"
    /\ PRECISION_REACHED
    /\ pct' = [pct EXCEPT ![w] = "done"]
    /\ UNCHANGED <<argVars, mpiVars, serVars, ariVars, bwaits, num_threads, TPR, PRECISION_REACHED, bufs,
                   thread_data, loc, pcm, waiting, barrier_count, created, iterations,
                   result, witer, hist, ref>>

\* the swap with the start moved to where the run ended
WorkerSwap_MoveStart(w) ==
    /\ engine = "pthread" /\ w \in DOMAIN pct /\ pct[w] = "check"
    /\ ~PRECISION_REACHED
    /\ witer[w] + 1 < MaxIter
    /\ thread_data' = [thread_data EXCEPT
                          ![w + 1].original_matrix = thread_data[w + 1].new_matrix,
                          ![w + 1].new_matrix = thread_data[w + 1].original_matrix,
                          ![w + 1].start_i = loc[w].i,
                          ![w + 1].start_j = loc[w].j]
    /\ loc' = [loc EXCEPT ![w] = [i |-> thread_data[w + 1].start_i,
                                  j |-> thread_data[w + 1].start_j, c |-> 0]]
    /\ witer' = [witer EXCEPT ![w] = witer[w] + 1]
    /\ pct' = [pct EXCEPT ![w] = "cell"]
    /\ UNCHANGED <<argVars, mpiVars, serVars, ariVars, bwaits, num_threads, TPR, PRECISION_REACHED, bufs, pcm,
                   waiting, barrier_count, created, iterations, result, hist, ref>>

\* the swap written without its temporary: both pointers end on new_matrix
WorkerSwap_NoTemp(w) ==
    /\ engine = "pthread" /\ w \in DOMAIN pct /\ pct[w] = "check"
    /\ ~PRECISION_REACHED
    /\ witer[w] + 1 < MaxIter
    /\ thread_data' = [thread_data EXCEPT
                          ![w + 1].original_matrix = thread_data[w + 1].new_matrix]
    /\ loc' = [loc EXCEPT ![w] = [i |-> thread_data[w + 1].start_i,
                                  j |-> thread_data[w + 1].start_j, c |-> 0]]
    /\ witer' = [witer EXCEPT ![w] = witer[w] + 1]
    /\ pct' = [pct EXCEPT ![w] = "cell"]
    /\ UNCHANGED <<argVars, mpiVars, serVars, ariVars, bwaits, num_threads, TPR, PRECISION_REACHED, bufs, pcm,
                   waiting, barrier_count, created, iterations, result, hist, ref>>

\* relax_cells: the matrices are swapped and the loop starts again (the
\* model follows the first MaxIter iterations)
WorkerSwap(w) ==
    /\ engine = "pthread" /\ w \in DOMAIN pct /\ pct[w] = "check"
    /\ ~PRECISION_REACHED
    /\ witer[w] + 1 < MaxIter
    /\ thread_data' = [thread_data EXCEPT
                          ![w + 1].original_matrix = thread_data[w + 1].new_matrix,
                          ![w + 1].new_matrix = thread_data[w + 1].original_matrix]
    /\ loc' = [loc EXCEPT ![w] = [i |-> thread_data[w + 1].start_i,
                                  j |-> thread_data[w + 1].start_j, c |-> 0]]
    /\ witer' = [witer EXCEPT ![w] = witer[w] + 1]
    /\ pct' = [pct EXCEPT ![w] = "cell"]
    /\ UNCHANGED <<argVars, mpiVars, serVars, ariVars, bwaits, num_threads, TPR, PRECISION_REACHED, bufs, pcm,
                   waiting, barrier_count, created, iterations, result, hist, ref>>

\* relax_matrix_parallel: the three pthread_barrier_wait calls of main
MainBarrier1 ==
    /\ engine = "pthread" /\ pcm = "b1"
    /\ BarrierWait(Main)
    /\ UNCHANGED <<argVars, mpiVars, serVars, ariVars, num_threads, TPR, PRECISION_REACHED, bufs,
                   thread_data, loc, barrier_count, created, iterations, result, witer,
                   hist, ref>>

MainBarrier2 ==
    /\ engine = "pthread" /\ pcm = "b2"
    /\ BarrierWait(Main)
    /\ UNCHANGED <<argVars, mpiVars, serVars, ariVars, num_threads, TPR, PRECISION_REACHED, bufs,
                   thread_data, loc, barrier_count, created, iterations, result, witer,
                   hist, ref>>

MainBarrier3 ==
    /\ engine = "pthread" /\ pcm = "b3"
    /\ BarrierWait(Main)
    /\ UNCHANGED <<argVars, mpiVars, serVars, ariVars, num_threads, TPR, PRECISION_REACHED, bufs,
                   thread_data, loc, barrier_count, created, iterations, result, witer,
                   hist, ref>>

\* relax_matrix_parallel: PRECISION_REACHED is computed from the flags
MainDecide ==
    /\ engine = "pthread" /\ pcm = "decide"
    /\ PRECISION_REACHED' = CheckFlags(TPR, 0, num_threads, PRECISION_REACHED)
    /\ hist' = Append(hist, TPR)
    /\ ref' = RefStep(ref, size, precision)
    /\ pcm' = "decided"
    /\ UNCHANGED <<argVars, mpiVars, serVars, ariVars, bwaits, num_threads, TPR, bufs, thread_data, loc, pct,
                   waiting, barrier_count, created, iterations, result, witer>>

\* the next iteration begun with the flags left as the threads set them
MainContinue_NoReset ==
    /\ engine = "pthread" /\ pcm = "decided" /\ ~PRECISION_REACHED
    /\ iterations < MaxIter
    /\ iterations' = iterations + 1
    /\ pcm' = "b2"
    /\ UNCHANGED <<argVars, mpiVars, serVars, ariVars, bwaits, num_threads, TPR, PRECISION_REACHED, bufs,
                   thread_data, loc, pct, waiting, barrier_count, created, result, witer,
                   hist, ref>>

\* relax_matrix_parallel: not reached: the flags are reset, iterations++
MainContinue ==
    /\ engine = "pthread" /\ pcm = "decided" /\ ~PRECISION_REACHED
    /\ iterations < MaxIter
    /\ TPR' = [i \in DOMAIN TPR |-> TRUE]
    /\ iterations' = iterations + 1
    /\ pcm' = "b2"
    /\ UNCHANGED <<argVars, mpiVars, serVars, ariVars, bwaits, num_threads, PRECISION_REACHED, bufs, thread_data,
                   loc, pct, waiting, barrier_count, created, result, witer, hist, ref>>

\* the break followed by pthread_join at once, without the wait after the loop
MainBreak_NoWait ==
    /\ engine = "pthread" /\ pcm = "decided" /\ PRECISION_REACHED
    /\ pcm' = "join"
    /\ UNCHANGED <<argVars, mpiVars, serVars, ariVars, bwaits, num_threads, TPR, PRECISION_REACHED, bufs,
                   thread_data, loc, pct, waiting, barrier_count, created, iterations,
                   result, witer, hist, ref>>

\* relax_matrix_parallel: reached: break
MainBreak ==
    /\ engine = "pthread" /\ pcm = "decided" /\ PRECISION_REACHED
    /\ pcm' = "b3"
    /\ UNCHANGED <<argVars, mpiVars, serVars, ariVars, bwaits, num_threads, TPR, PRECISION_REACHED, bufs,
                   thread_data, loc, pct, waiting, barrier_count, created, iterations,
                   result, witer, hist, ref>>

\* relax_matrix_parallel: pthread_join of every thread
MainJoin ==
    /\ engine = "pthread" /\ pcm = "join"
    /\ \A w \in DOMAIN pct : pct[w] = "done"
    /\ pcm' = "joined"
    /\ UNCHANGED <<argVars, mpiVars, serVars, ariVars, bwaits, num_threads, TPR, PRECISION_REACHED, bufs,
                   thread_data, loc, pct, waiting, barrier_count, created, iterations,
                   result, witer, hist, ref>>

\* relax_matrix_parallel: the barrier is destroyed, new_matrix is freed,
\* matrix is returned; main frees it and returns 0
MainFinish ==
    /\ engine = "pthread" /\ pcm = "joined"
    /\ barrier_count' = 0
    /\ result' = [status |-> "success", returned |-> 0, freed |-> {1}]
    /\ pcm' = "exited"
    /\ UNCHANGED <<argVars, mpiVars, serVars, ariVars, bwaits, num_threads, TPR, PRECISION_REACHED, bufs,
                   thread_data, loc, pct, waiting, created, iterations, witer, hist, ref>>

ShmNext ==
    \/ ShmReject \/ ShmAccept \/ ShmMatrixInit \/ ShmMatrixInitFault
    \/ RelaxSetup \/ RelaxSetupDivZero \/ RelaxSetupZeroThreads \/ CreateThread
    \/ \E w \in 0..(MaxThreads * MaxThreads) :
          WorkerCell(w) \/ WorkerBarrier1(w) \/ WorkerBarrier2(w)
          \/ WorkerExit(w) \/ WorkerSwap(w)
    \/ MainBarrier1 \/ MainBarrier2 \/ MainBarrier3
    \/ MainDecide \/ MainContinue \/ MainBreak \/ MainJoin \/ MainFinish


\* ======================================================================
\*  mpi program: pure parts
\* ======================================================================

Root == 0
Ranks == 0..(nprocs - 1)

\* matrix_init: a flat size * size array, 1 on the four sides, 0 inside
MpiMatrixInit(n) ==
    [i \in 0..(n * n - 1) |->
        IF i % n = 0 \/ i < n \/ i >= n * (n - 1) \/ i % n = n - 1 THEN Scale ELSE 0]

\* the displacement without the halo row skipped
GatherDispl_NoHalo(scatter_displ, n) == scatter_displ

\* relax_matrix_parallel: gather_displ[i] = scatter_displ[i] + size
GatherDispl(scatter_displ, n) == scatter_displ + n

\* relax_matrix_parallel: the for loop filling the four arrays, from
\* process i on
RECURSIVE CountLoop(_, _, _, _, _, _)
CountLoop(i, scatter_offset, rows_per_process, rows_remainder, np, n) ==
    IF i >= np THEN <<>>
    ELSE LET sc   == IF rows_remainder > 0 THEN (rows_per_process + 2) * n + n
                     ELSE (rows_per_process + 2) * n
             rem2 == IF rows_remainder > 0 THEN rows_remainder - 1 ELSE rows_remainder
         IN  <<[scatter_displ |-> scatter_offset, scatter_count |-> sc,
                gather_count |-> sc - 2 * n,
                gather_displ |-> GatherDispl(scatter_offset, n)]>>
             \o CountLoop(i + 1, scatter_offset + sc - 2 * n, rows_per_process, rem2,
                          np, n)

\* relax_matrix_parallel: the counts and displacements; process i is
\* element i + 1
RowCounts(n, np) == CountLoop(0, 0, (n - 2) \div np, (n - 2) % np, np, n)

\* count elements of array a from displacement displ on
Chunk(a, displ, count) == [k \in 0..(count - 1) |-> a[displ + k]]

\* the test with the right side forgotten
EdgeCell_LeftOnly(input_index, n) == input_index % n = 0

\* relax_cells: the cell is on the left or the right side
EdgeCell(input_index, n) == input_index % n = 0 \/ (input_index + 1) % n = 0

\* the average with the cell itself taken for the cell above
ChunkAverage_NoUp(input, input_index, n) ==
    (input[input_index] + input[input_index + n]
        + input[input_index - 1] + input[input_index + 1]) \div 4

\* relax_cells: new_value
ChunkAverage(input, input_index, n) ==
    (input[input_index - n] + input[input_index + n]
        + input[input_index - 1] + input[input_index + 1]) \div 4

\* the loop with the cell left out once the flag is false
RECURSIVE RelaxCells_SkipAfterFail(_, _, _, _, _, _, _, _)
RelaxCells_SkipAfterFail(input, out, input_index, result_index, end, n, prec, reached) ==
    IF input_index > end THEN [result |-> out, precision_reached |-> reached]
    ELSE IF EdgeCell(input_index, n)
         THEN RelaxCells_SkipAfterFail(input,
                  [out EXCEPT ![result_index] = input[input_index]],
                  input_index + 1, result_index + 1, end, n, prec, reached)
         ELSE IF ~reached
              THEN RelaxCells_SkipAfterFail(input, out, input_index + 1,
                       result_index + 1, end, n, prec, reached)
              ELSE LET new_value == ChunkAverage(input, input_index, n)
                   IN  RelaxCells_SkipAfterFail(input,
                           [out EXCEPT ![result_index] = new_value],
                           input_index + 1, result_index + 1, end, n, prec,
                           ~(Abs(new_value - input[input_index]) > prec))

\* relax_cells: the for loop from input_index on (out is the array result);
\* result and *precision_reached as it leaves them
RECURSIVE RelaxCells(_, _, _, _, _, _, _, _)
RelaxCells(input, out, input_index, result_index, end, n, prec, reached) ==
    IF input_index > end THEN [result |-> out, precision_reached |-> reached]
    ELSE IF EdgeCell(input_index, n)
         THEN RelaxCells(input, [out EXCEPT ![result_index] = input[input_index]],
                         input_index + 1, result_index + 1, end, n, prec, reached)
         ELSE LET new_value == ChunkAverage(input, input_index, n)
              IN  RelaxCells(input, [out EXCEPT ![result_index] = new_value],
                             input_index + 1, result_index + 1, end, n, prec,
                             IF reached /\ Abs(new_value - input[input_index]) > prec
                             THEN FALSE ELSE reached)

\* MPI_LAND over the contributions
LAnd(vals) == \A q \in DOMAIN vals : vals[q]

\* MPI_Gatherv at the root: chunk q is stored at gather_displ[q]
GatherInto(matrix, chunks, cnt) ==
    [k \in DOMAIN matrix |->
        IF \E q \in DOMAIN chunks :
              /\ k >= cnt[q + 1].gather_displ
              /\ k < cnt[q + 1].gather_displ + cnt[q + 1].gather_count
        THEN LET q == CHOOSE q \in DOMAIN chunks :
                         /\ k >= cnt[q + 1].gather_displ
                         /\ k < cnt[q + 1].gather_displ + cnt[q + 1].gather_count
             IN  chunks[q][k - cnt[q + 1].gather_displ]
        ELSE matrix[k]]

Without(f, p) == [q \in DOMAIN f \ {p} |-> f[q]]
With(f, p, v) == [q \in DOMAIN f \cup {p} |-> IF q = p THEN v ELSE f[q]]

\* ======================================================================
\*  mpi program: steps
\* ======================================================================

MpiIdle ==
    /\ nprocs = 0 /\ mpc = <<>> /\ mmatrix = <<>> /\ counts = <<>>
    /\ send_buffer = <<>> /\ recv_buffer = <<>> /\ local_precision = <<>>
    /\ global_precision = <<>> /\ miter = <<>> /\ sc_msg = <<>> /\ g_msg = <<>>
    /\ ar_val = <<>> /\ ar_left = {} /\ mhist = <<>>

MpiInit ==
    /\ engine = "mpi"
    /\ size \in MpiSizeArgs /\ precision \in PrecisionArgs /\ seed = 0
    /\ nprocs \in ProcArgs
    /\ mpc = [p \in Ranks |-> "start"]
    /\ mmatrix = [p \in Ranks |-> <<>>]
    /\ counts = [p \in Ranks |-> <<>>]
    /\ send_buffer = [p \in Ranks |-> <<>>]
    /\ recv_buffer = [p \in Ranks |-> <<>>]
    /\ local_precision = [p \in Ranks |-> TRUE]
    /\ global_precision = [p \in Ranks |-> FALSE]
    /\ miter = [p \in Ranks |-> 0]
    /\ sc_msg = <<>> /\ g_msg = <<>> /\ ar_val = <<>> /\ ar_left = {} /\ mhist = <<>>

\* main: size, precision or the process count is refused: return 1
MpiReject(p) ==
    /\ engine = "mpi" /\ p \in Ranks /\ mpc[p] = "start"
    /\ (size < 2 \/ precision <= 0 \/ nprocs > size - 2)
    /\ mpc' = [mpc EXCEPT ![p] = "exit1"]
    /\ UNCHANGED <<argVars, shmVars, serVars, ariVars, nprocs, mmatrix, counts, send_buffer, recv_buffer,
                   local_precision, global_precision, miter, sc_msg, g_msg, ar_val,
                   ar_left, mhist>>

\* main: the arguments pass; matrix = matrix_init(size)
MpiAccept(p) ==
    /\ engine = "mpi" /\ p \in Ranks /\ mpc[p] = "start"
    /\ ~(size < 2 \/ precision <= 0 \/ nprocs > size - 2)
    /\ mmatrix' = [mmatrix EXCEPT ![p] = MpiMatrixInit(size)]
    /\ mpc' = [mpc EXCEPT ![p] = "setup"]
    /\ UNCHANGED <<argVars, shmVars, serVars, ariVars, nprocs, counts, send_buffer, recv_buffer,
                   local_precision, global_precision, miter, sc_msg, g_msg, ar_val,
                   ar_left, mhist>>

\* relax_matrix_parallel up to its loop: counts, displacements, buffers
MpiSetup(p) ==
    /\ engine = "mpi" /\ p \in Ranks /\ mpc[p] = "setup"
    /\ LET cnt == RowCounts(size, nprocs)
       IN  /\ counts' = [counts EXCEPT ![p] = cnt]
           /\ send_buffer' = [send_buffer EXCEPT
                                 ![p] = [k \in 0..(cnt[p + 1].scatter_count - 1) |-> 0]]
           /\ recv_buffer' = [recv_buffer EXCEPT
                                 ![p] = [k \in 0..(cnt[p + 1].gather_count - 1) |-> 0]]
    /\ local_precision' = [local_precision EXCEPT ![p] = TRUE]
    /\ global_precision' = [global_precision EXCEPT ![p] = FALSE]
    /\ miter' = [miter EXCEPT ![p] = 0]
    /\ mpc' = [mpc EXCEPT ![p] = "scatter"]
    /\ UNCHANGED <<argVars, shmVars, serVars, ariVars, nprocs, mmatrix, sc_msg, g_msg, ar_val, ar_left,
                   mhist>>

\* MPI_Scatterv at the root: every process is sent its chunk of the root's
\* matrix (the model follows the first MaxIter iterations)
ScatterRoot ==
    /\ engine = "mpi" /\ Root \in Ranks /\ mpc[Root] = "scatter"
    /\ miter[Root] < MaxIter
    /\ LET cnt == counts[Root]
           chunk(q) == Chunk(mmatrix[Root], cnt[q + 1].scatter_displ,
                             cnt[q + 1].scatter_count)
       IN  /\ sc_msg' = [q \in Ranks \ {Root} |-> chunk(q)]
           /\ send_buffer' = [send_buffer EXCEPT ![Root] = chunk(Root)]
    /\ mpc' = [mpc EXCEPT ![Root] = "relax"]
    /\ UNCHANGED <<argVars, shmVars, serVars, ariVars, nprocs, mmatrix, counts, recv_buffer,
                   local_precision, global_precision, miter, g_msg, ar_val, ar_left,
                   mhist>>

\* MPI_Scatterv at another process: its chunk arrives in send_buffer
ScatterRecv(p) ==
    /\ engine = "mpi" /\ p \in Ranks \ {Root} /\ mpc[p] = "scatter"
    /\ p \in DOMAIN sc_msg
    /\ send_buffer' = [send_buffer EXCEPT ![p] = sc_msg[p]]
    /\ sc_msg' = Without(sc_msg, p)
    /\ mpc' = [mpc EXCEPT ![p] = "relax"]
    /\ UNCHANGED <<argVars, shmVars, serVars, ariVars, nprocs, mmatrix, counts, recv_buffer,
                   local_precision, global_precision, miter, g_msg, ar_val, ar_left,
                   mhist>>

\* relax_cells(send_buffer, recv_buffer, &local_precision, ..)
MpiRelax(p) ==
    /\ engine = "mpi" /\ p \in Ranks /\ mpc[p] = "relax"
    /\ LET input_size == counts[p][p + 1].scatter_count
           rc == RelaxCells(send_buffer[p], recv_buffer[p], size, 0,
                            input_size - size - 1, size, precision, TRUE)
       IN  /\ recv_buffer' = [recv_buffer EXCEPT ![p] = rc.result]
           /\ local_precision' = [local_precision EXCEPT ![p] = rc.precision_reached]
    /\ mpc' = [mpc EXCEPT ![p] = "allreduce"]
    /\ UNCHANGED <<argVars, shmVars, serVars, ariVars, nprocs, mmatrix, counts, send_buffer,
                   global_precision, miter, sc_msg, g_msg, ar_val, ar_left, mhist>>

\* MPI_Allreduce: the process contributes local_precision and blocks
AllreduceEnter(p) ==
    /\ engine = "mpi" /\ p \in Ranks /\ mpc[p] = "allreduce"
    /\ ar_val' = With(ar_val, p, local_precision[p])
    /\ mhist' = IF DOMAIN ar_val' = Ranks THEN Append(mhist, ar_val') ELSE mhist
    /\ mpc' = [mpc EXCEPT ![p] = "ar_wait"]
    /\ UNCHANGED <<argVars, shmVars, serVars, ariVars, nprocs, mmatrix, counts, send_buffer, recv_buffer,
                   local_precision, global_precision, miter, sc_msg, g_msg, ar_left>>

\* every process left with its own flag for the result, as if nothing were
\* reduced
AllreduceLeave_Local(p) ==
    /\ engine = "mpi" /\ p \in Ranks /\ mpc[p] = "ar_wait"
    /\ DOMAIN ar_val = Ranks /\ p \notin ar_left
    /\ global_precision' = [global_precision EXCEPT ![p] = local_precision[p]]
    /\ IF ar_left \cup {p} = Ranks
       THEN ar_val' = <<>> /\ ar_left' = {}
       ELSE ar_val' = ar_val /\ ar_left' = ar_left \cup {p}
    /\ mpc' = [mpc EXCEPT ![p] = "gather"]
    /\ UNCHANGED <<argVars, shmVars, serVars, ariVars, nprocs, mmatrix, counts, send_buffer, recv_buffer,
                   local_precision, miter, sc_msg, g_msg, mhist>>

\* MPI_Allreduce returns once every process has contributed
AllreduceLeave(p) ==
    /\ engine = "mpi" /\ p \in Ranks /\ mpc[p] = "ar_wait"
    /\ DOMAIN ar_val = Ranks /\ p \notin ar_left
    /\ global_precision' = [global_precision EXCEPT ![p] = LAnd(ar_val)]
    /\ IF ar_left \cup {p} = Ranks
       THEN ar_val' = <<>> /\ ar_left' = {}
       ELSE ar_val' = ar_val /\ ar_left' = ar_left \cup {p}
    /\ mpc' = [mpc EXCEPT ![p] = "gather"]
    /\ UNCHANGED <<argVars, shmVars, serVars, ariVars, nprocs, mmatrix, counts, send_buffer, recv_buffer,
                   local_precision, miter, sc_msg, g_msg, mhist>>

\* MPI_Gatherv at another process: recv_buffer is sent; iterations++
GatherSend(p) ==
    /\ engine = "mpi" /\ p \in Ranks \ {Root} /\ mpc[p] = "gather"
    /\ g_msg' = With(g_msg, p, recv_buffer[p])
    /\ miter' = [miter EXCEPT ![p] = miter[p] + 1]
    /\ mpc' = [mpc EXCEPT ![p] = "loop"]
    /\ UNCHANGED <<argVars, shmVars, serVars, ariVars, nprocs, mmatrix, counts, send_buffer, recv_buffer,
                   local_precision, global_precision, sc_msg, ar_val, ar_left, mhist>>

\* MPI_Gatherv at the root: every chunk is stored in matrix; iterations++
GatherRoot ==
    /\ engine = "mpi" /\ Root \in Ranks /\ mpc[Root] = "gather"
    /\ DOMAIN g_msg = Ranks \ {Root}
    /\ mmatrix' = [mmatrix EXCEPT
                      ![Root] = GatherInto(mmatrix[Root],
                                           With(g_msg, Root, recv_buffer[Root]),
                                           counts[Root])]
    /\ g_msg' = <<>>
    /\ miter' = [miter EXCEPT ![Root] = miter[Root] + 1]
    /\ mpc' = [mpc EXCEPT ![Root] = "loop"]
    /\ UNCHANGED <<argVars, shmVars, serVars, ariVars, nprocs, counts, send_buffer, recv_buffer,
                   local_precision, global_precision, sc_msg, ar_val, ar_left, mhist>>

\* while (!global_precision): another iteration
MpiLoopAgain(p) ==
    /\ engine = "mpi" /\ p \in Ranks /\ mpc[p] = "loop"
    /\ ~global_precision[p]
    /\ mpc' = [mpc EXCEPT ![p] = "scatter"]
    /\ UNCHANGED <<argVars, shmVars, serVars, ariVars, nprocs, mmatrix, counts, send_buffer, recv_buffer,
                   local_precision, global_precision, miter, sc_msg, g_msg, ar_val,
                   ar_left, mhist>>

\* the loop ends; the arrays are freed, matrix is returned, main returns 0
MpiLoopExit(p) ==
    /\ engine = "mpi" /\ p \in Ranks /\ mpc[p] = "loop"
    /\ global_precision[p]
    /\ mpc' = [mpc EXCEPT ![p] = "exit0"]
    /\ UNCHANGED <<argVars, shmVars, serVars, ariVars, nprocs, mmatrix, counts, send_buffer, recv_buffer,
                   local_precision, global_precision, miter, sc_msg, g_msg, ar_val,
                   ar_left, mhist>>

MpiNext ==
    \/ ScatterRoot \/ GatherRoot
    \/ \E p \in 0..MaxProcs :
          MpiReject(p) \/ MpiAccept(p) \/ MpiSetup(p) \/ ScatterRecv(p) \/ MpiRelax(p)
          \/ AllreduceEnter(p) \/ AllreduceLeave(p) \/ GatherSend(p)
          \/ MpiLoopAgain(p) \/ MpiLoopExit(p)

\* ======================================================================
\*  serial program
\* ======================================================================

\* serial_average_matrix: the values of i (and of j) its for loops take,
\* for (i = 1; i < size - 2; i++)
SerialRange(n) == {i \in 1..n : i < n - 2}

\* serial_average_matrix: new_val
SerialAverage(m, i, j) == (m[i - 1][j] + m[i + 1][j] + m[i][j - 1] + m[i][j + 1]) \div 4

\* serial_average_matrix: the two for loops of one pass of the while loop;
\* new_matrix and still_changing as they leave them
SerialSweep(matrix, new_matrix, n, prec) ==
    [new_matrix |->
        [i \in 0..(n - 1) |-> [j \in 0..(n - 1) |->
            IF i \in SerialRange(n) /\ j \in SerialRange(n)
            THEN SerialAverage(matrix, i, j) ELSE new_matrix[i][j]]],
     still_changing |->
        \E i, j \in SerialRange(n) : Abs(matrix[i][j] - SerialAverage(matrix, i, j)) > prec]

SerIdle ==
    /\ spc = None /\ sbufs = <<>> /\ sptr = [matrix |-> 0, new_matrix |-> 1]
    /\ still_changing = TRUE /\ iteration = 0

SerInit ==
    /\ engine = "serial"
    /\ size \in SizeArgs /\ precision \in PrecisionArgs /\ seed \in Seeds
    /\ spc = "start" /\ sbufs = <<>> /\ sptr = [matrix |-> 0, new_matrix |-> 1]
    /\ still_changing = TRUE /\ iteration = 0

\* main: the size or the precision is refused: return 1
SerReject ==
    /\ engine = "serial" /\ spc = "start"
    /\ (size < 2 \/ precision <= 0)
    /\ spc' = "exit1"
    /\ UNCHANGED <<argVars, shmVars, mpiVars, ariVars, sbufs, sptr, still_changing, iteration>>

\* main: a = matrix_init()
SerMatrixInit ==
    /\ engine = "serial" /\ spc = "start"
    /\ ~(size < 2 \/ precision <= 0)
    /\ sbufs' = <<MatrixInit(size, seed)>>
    /\ spc' = "average"
    /\ UNCHANGED <<argVars, shmVars, mpiVars, ariVars, sptr, still_changing, iteration>>

\* matrix_init compares shared_args.matrix[i], which malloc left
\* uninitialised, with NULL: when it is not NULL the store through it faults
SerMatrixInitFault ==
    /\ engine = "serial" /\ spc = "start"
    /\ ~(size < 2 \/ precision <= 0)
    /\ spc' = "crashed"
    /\ UNCHANGED <<argVars, shmVars, mpiVars, ariVars, sbufs, sptr, still_changing, iteration>>

\* serial_average_matrix up to its loop: new_matrix = matrix_init(), a copy
\* of shared_args.matrix
SerSetup ==
    /\ engine = "serial" /\ spc = "average"
    /\ sbufs' = <<sbufs[1], MatrixInit(size, seed)>>
    /\ sptr' = [matrix |-> 0, new_matrix |-> 1]
    /\ still_changing' = TRUE
    /\ iteration' = 0
    /\ spc' = "loop"
    /\ UNCHANGED <<argVars, shmVars, mpiVars, ariVars>>

\* serial_average_matrix: one pass of the while loop: the sweep, the swap,
\* iteration++ (the model follows the first MaxIter iterations)
SerIterate ==
    /\ engine = "serial" /\ spc = "loop" /\ still_changing
    /\ iteration < MaxIter
    /\ LET sw == SerialSweep(sbufs[sptr.matrix + 1], sbufs[sptr.new_matrix + 1],
                             size, precision)
       IN  /\ sbufs' = [sbufs EXCEPT ![sptr.new_matrix + 1] = sw.new_matrix]
           /\ still_changing' = sw.still_changing
    /\ sptr' = [matrix |-> sptr.new_matrix, new_matrix |-> sptr.matrix]
    /\ iteration' = iteration + 1
    /\ UNCHANGED <<argVars, shmVars, mpiVars, ariVars, spc>>

\* serial_average_matrix: the loop ends, new_matrix is freed, matrix is
\* returned
SerReturn ==
    /\ engine = "serial" /\ spc = "loop" /\ ~still_changing
    /\ spc' = "exit0"
    /\ UNCHANGED <<argVars, shmVars, mpiVars, ariVars, sbufs, sptr, still_changing, iteration>>

SerNext ==
    \/ SerReject \/ SerMatrixInit \/ SerMatrixInitFault \/ SerSetup
    \/ SerIterate \/ SerReturn

\* ======================================================================
\*  partition arithmetic in the width of its C types
\* ======================================================================

\* main: size > 10e6 is refused
SizeLimit == 10000000

\* A size_t value is a pair <<high, low>> of 24-bit halves: it is kept
\* modulo 2^48, which agrees with the 64-bit value in the 32 bits an int
\* keeps and is exact for every product of two accepted sizes.
Limb == 2^24

\* conversion of an int to size_t (sign extension)
Wide(x) == <<(x \div Limb) % Limb, x % Limb>>

\* conversion of a size_t or uint64_t to int: the low 32 bits, two's
\* complement (gcc)
ToInt(a) ==
    LET h == a[1] % 256
    IN  IF h < 128 THEN h * Limb + a[2] ELSE (h - 256) * Limb + a[2]

\* size_t +, -, <
WAdd(a, b) ==
    LET lo == a[2] + b[2]
    IN  <<(a[1] + b[1] + lo \div Limb) % Limb, lo % Limb>>
WSub(a, b) ==
    LET lo == a[2] - b[2]
    IN  <<(a[1] - b[1] + lo \div Limb) % Limb, lo % Limb>>
WLess(a, b) == a[1] < b[1] \/ (a[1] = b[1] /\ a[2] < b[2])

\* the product of two 24-bit halves, by 12-bit digits
Mul24(x, y) ==
    LET x1 == x \div 4096
        x0 == x % 4096
        y1 == y \div 4096
        y0 == y % 4096
        t0 == x0 * y0
        t1 == x1 * y0 + x0 * y1
        t2 == x1 * y1
        lo == t0 + (t1 % 4096) * 4096
    IN  <<(t2 + t1 \div 4096 + lo \div Limb) % Limb, lo % Limb>>

\* size_t *
WMul(a, b) ==
    WAdd(Mul24(a[2], b[2]),
         <<(Mul24(a[1], b[2])[2] + Mul24(a[2], b[1])[2]) % Limb, 0>>)

\* bit k of a
WBit(a, k) == IF k >= 24 THEN (a[1] \div 2^(k - 24)) % 2 ELSE (a[2] \div 2^k) % 2

\* the one element of a set of one element; {F(x) : x \in {e}} evaluates e
\* once, before F is applied
The(S) == CHOOSE x \in S : TRUE

\* one step of the long division by d: the quotient and remainder s of the
\* bits of a above k, taken on by bit k
WDivBit(a, d, k, s) ==
    LET r2 == WAdd(WAdd(s.r, s.r), <<0, WBit(a, k)>>)
    IN  IF WLess(r2, d) THEN [q |-> WAdd(s.q, s.q), r |-> r2]
        ELSE [q |-> WAdd(WAdd(s.q, s.q), <<0, 1>>), r |-> WSub(r2, d)]

\* long division by d: bits k down to low of a, 12 bits at a time
RECURSIVE WDivStep(_, _, _, _, _)
WDivStep(a, d, k, low, s) ==
    IF k < low THEN s
    ELSE The({WDivStep(a, d, k - 1, low, s2) : s2 \in {WDivBit(a, d, k, s)}})
RECURSIVE WDivChunks(_, _, _, _)
WDivChunks(a, d, k, s) ==
    IF k < 0 THEN s
    ELSE The({WDivChunks(a, d, k - 12, s2) : s2 \in {WDivStep(a, d, k, k - 11, s)}})

\* size_t / and %, d > 0 (a < d, or d below 2^47 so that no remainder
\* leaves the 48 bits)
WDivMod(a, d) ==
    IF WLess(a, d) THEN [q |-> <<0, 0>>, r |-> a]
    ELSE The({WDivChunks(x[1], x[2], 47, [q |-> <<0, 0>>, r |-> <<0, 0>>]) : x \in {<<a, d>>}})

\* (shared_args.size - 2) * (shared_args.size - 2), size_t
InnerCells64(n) == WMul(Wide(n - 2), Wide(n - 2))

\* main: the clamp, num_threads an int
ClampThreads32(n, t) ==
    IF WLess(InnerCells64(n), Wide(t)) THEN ToInt(InnerCells64(n)) ELSE t

\* determine_thread_data: int cells_per_thread = inner_cells / num_threads
CellsPerThread32(n, nthreads) == ToInt(WDivMod(InnerCells64(n), Wide(nthreads)).q)

\* determine_thread_data: int remainder = inner_cells % cells_per_thread
\* (cells_per_thread # 0)
Remainder32(n, cells_per_thread) ==
    ToInt(WDivMod(InnerCells64(n), Wide(cells_per_thread)).r)

\* determine_thread_data: thread_data[i].cells, from thread i on
RECURSIVE ThreadCells32(_, _, _, _)
ThreadCells32(i, cells_per_thread, remainder, nthreads) ==
    IF i >= nthreads THEN <<>>
    ELSE <<IF remainder > 0 THEN cells_per_thread + 1 ELSE cells_per_thread>>
         \o ThreadCells32(i + 1, cells_per_thread,
                          IF remainder > 0 THEN remainder - 1 ELSE remainder, nthreads)

\* relax_matrix_parallel: the for loop filling the four int arrays, from
\* process i on; scatter_offset, rows_per_process, rows_remainder and size
\* are size_t
RECURSIVE CountLoop32(_, _, _, _, _, _)
CountLoop32(i, scatter_offset, rows_per_process, rows_remainder, np, n) ==
    IF i >= np THEN <<>>
    ELSE LET sd   == ToInt(scatter_offset)
             sc0  == ToInt(WMul(Wide(rows_per_process + 2), Wide(n)))
             sc   == IF rows_remainder > 0 THEN ToInt(WAdd(Wide(sc0), Wide(n))) ELSE sc0
             rem2 == IF rows_remainder > 0 THEN rows_remainder - 1 ELSE rows_remainder
             gc   == WSub(Wide(sc), WMul(Wide(2), Wide(n)))
         IN  <<[scatter_displ |-> sd, scatter_count |-> sc,
                gather_count |-> ToInt(gc),
                gather_displ |-> ToInt(WAdd(Wide(sd), Wide(n)))]>>
             \o CountLoop32(i + 1, WAdd(scatter_offset, gc), rows_per_process, rem2, np, n)

RowCounts32(n, np) == CountLoop32(0, <<0, 0>>, (n - 2) \div np, (n - 2) % np, np, n)

\* relax_cells: int start = size; int end = input_size - size - 1, where
\* input_size is scatter_count[rank] passed as a size_t
RelaxRange32(n, scatter_count) ==
    [start |-> ToInt(Wide(n)),
     end   |-> ToInt(WSub(WSub(Wide(scatter_count), Wide(n)), Wide(1)))]

ArithSizes == {46340, 46341, 46342, 46343, SizeLimit, SizeLimit + 1}
ArithCounts == 1..MaxProcs

AriIdle ==
    /\ apc = None /\ acount = 0
    /\ cells32 = <<>> /\ counts32 = <<>> /\ range32 = <<>>

AriInit ==
    /\ engine = "arith"
    /\ size \in ArithSizes /\ precision = Scale \div 2 /\ seed = 0
    /\ acount \in ArithCounts
    /\ apc = "start"
    /\ cells32 = <<>> /\ counts32 = <<>> /\ range32 = <<>>

\* main (both programs): the size is above the limit
ArithReject ==
    /\ engine = "arith" /\ apc = "start"
    /\ (size < 2 \/ size > SizeLimit)
    /\ apc' = "exit1"
    /\ UNCHANGED <<argVars, shmVars, mpiVars, serVars, acount, cells32, counts32, range32>>

\* pthread program: main's clamp and determine_thread_data's counts
ArithThreadData ==
    /\ engine = "arith" /\ apc = "start"
    /\ ~(size < 2 \/ size > SizeLimit) /\ acount >= 1
    /\ LET nthreads         == ClampThreads32(size, acount)
           cells_per_thread == CellsPerThread32(size, nthreads)
           remainder        == Remainder32(size, cells_per_thread)
       IN  cells32' = [num_threads |-> nthreads, cells_per_thread |-> cells_per_thread,
                       remainder |-> remainder,
                       cells |-> ThreadCells32(0, cells_per_thread, remainder, nthreads)]
    /\ apc' = "threads"
    /\ UNCHANGED <<argVars, shmVars, mpiVars, serVars, acount, counts32, range32>>

\* mpi program: the counts and displacements of relax_matrix_parallel
ArithRowCounts ==
    /\ engine = "arith" /\ apc = "start"
    /\ ~(size < 2 \/ size > SizeLimit) /\ ~(acount > size - 2)
    /\ counts32' = RowCounts32(size, acount)
    /\ apc' = "counts"
    /\ UNCHANGED <<argVars, shmVars, mpiVars, serVars, acount, cells32, range32>>

\* mpi program: every process enters relax_cells
ArithRelaxCells ==
    /\ engine = "arith" /\ apc = "counts"
    /\ range32' = [rank \in 1..Len(counts32) |->
                      RelaxRange32(size, counts32[rank].scatter_count)]
    /\ apc' = "ranges"
    /\ UNCHANGED <<argVars, shmVars, mpiVars, serVars, acount, cells32, counts32>>

AriNext == ArithReject \/ ArithThreadData \/ ArithRowCounts \/ ArithRelaxCells

\* ======================================================================
\*  the programs
\* ======================================================================

Init ==
    \/ ShmInit /\ MpiIdle /\ SerIdle /\ AriIdle
    \/ MpiInit /\ ShmIdle /\ SerIdle /\ AriIdle
    \/ SerInit /\ ShmIdle /\ MpiIdle /\ AriIdle
    \/ AriInit /\ ShmIdle /\ MpiIdle /\ SerIdle

Next == ShmNext \/ MpiNext \/ SerNext \/ AriNext

Spec == Init /\ [][Next]_vars

\* every thread and every process that can take a step is scheduled in the
\* end: a run stops only where no step is possible
FairSpec == Spec /\ WF_vars(Next)


\* ======================================================================
\*  Properties
\* ======================================================================

Interior(n) == {c \in (1..(n - 2)) \X (1..(n - 2)) : TRUE}
Border(n) == {c \in (0..(n - 1)) \X (0..(n - 1)) :
                 c[1] = 0 \/ c[2] = 0 \/ c[1] = n - 1 \/ c[2] = n - 1}
AllTrue(flags) == \A i \in DOMAIN flags : flags[i]

\* the places (thread, position in its run) where a cell is assigned
Assignments(td, n, cell) ==
    {x \in (1..Len(td)) \X (1..InnerCells(n)) :
        x[2] <= td[x[1]].cells /\ RunOf(td[x[1]], n)[x[2]] = cell}

\* C1: whenever the thread data has been determined for a matrix of size
\* >= 3, every interior cell lies in exactly one thread's run.
C1_EveryInteriorCellOnce ==
    (engine = "pthread" /\ size >= 3 /\ thread_data # <<>>) =>
        \A cell \in Interior(size) :
            Cardinality(Assignments(thread_data, size, cell)) = 1

\* C3: thread i is given floor(total / W) cells, and one more exactly when
\* i < total mod W.
C3_RunLengths ==
    (engine = "pthread" /\ size >= 3 /\ thread_data # <<>>) =>
        \A k \in 1..Len(thread_data) :
            thread_data[k].cells =
                (InnerCells(size) \div num_threads)
                + (IF k - 1 < InnerCells(size) % num_threads THEN 1 ELSE 0)

\* the elements process i gathers / is scattered
GatherRegion(cnt, i) ==
    cnt[i + 1].gather_displ..(cnt[i + 1].gather_displ + cnt[i + 1].gather_count - 1)
ScatterRegion(cnt, i) ==
    cnt[i + 1].scatter_displ..(cnt[i + 1].scatter_displ + cnt[i + 1].scatter_count - 1)

\* C2: the gather regions follow one another from the start of row 1 to the
\* end of row size - 2, are pairwise disjoint, hold floor((N-2)/P) rows plus
\* one for the first (N-2) mod P processes, and each scatter region is its
\* gather region with one row added above and one below.
C2_RowPartition ==
    \A p \in DOMAIN counts : counts[p] # <<>> =>
        LET cnt == counts[p]
            n   == size
        IN  /\ Len(cnt) = nprocs
            /\ cnt[1].gather_displ = n
            /\ \A i \in 0..(nprocs - 2) :
                  cnt[i + 2].gather_displ = cnt[i + 1].gather_displ + cnt[i + 1].gather_count
            /\ cnt[nprocs].gather_displ + cnt[nprocs].gather_count = n * (n - 1)
            /\ \A i, k \in 0..(nprocs - 1) :
                  i # k => GatherRegion(cnt, i) \cap GatherRegion(cnt, k) = {}
            /\ UNION {GatherRegion(cnt, i) : i \in 0..(nprocs - 1)} = n..(n * (n - 1) - 1)
            /\ \A i \in 0..(nprocs - 1) :
                  /\ cnt[i + 1].gather_count =
                        n * (((n - 2) \div nprocs)
                             + (IF i < (n - 2) % nprocs THEN 1 ELSE 0))
                  /\ ScatterRegion(cnt, i) =
                        (cnt[i + 1].gather_displ - n)
                            ..(cnt[i + 1].gather_displ + cnt[i + 1].gather_count + n - 1)

C2_Witness ==
    /\ engine = "mpi" /\ nprocs >= 2 /\ (size - 2) % nprocs # 0
    /\ \A p \in Ranks : counts[p] # <<>>
    /\ mpc[Root] = "loop"

\* C4: a thread count above the number of interior cells is not refused; it
\* becomes that number, and every thread is given one interior cell of its
\* own.
C4_ClampOneCellEach ==
    (engine = "pthread" /\ size >= 3 /\ precision > 0
        /\ threads_arg > InnerCells(size) /\ pcm # "start") =>
        /\ result.status # "error"
        /\ num_threads = InnerCells(size)
        /\ thread_data # <<>> =>
              /\ Len(thread_data) = InnerCells(size)
              /\ \A k \in 1..Len(thread_data) : thread_data[k].cells = 1
              /\ {RunOf(thread_data[k], size)[1] : k \in 1..Len(thread_data)}
                    = Interior(size)

C4_Witness ==
    /\ engine = "pthread" /\ size = 4 /\ threads_arg > 4
    /\ thread_data # <<>>
    /\ \A w \in DOMAIN pct : pct[w] = "done"

\* C5: more processes than interior rows is no error: no process returns 1.
C5_OverProvisionedNotAnError ==
    (engine = "mpi" /\ size >= 3 /\ precision > 0 /\ nprocs > size - 2) =>
        \A p \in Ranks : mpc[p] # "exit1"

\* C6: the cells on the four sides of every matrix hold their initial
\* values; a thread is only ever about to write an interior cell; a
\* process's result rows have the side cells of its input rows.
C6_BoundaryFixed ==
    /\ \A b \in DOMAIN bufs : \A c \in Border(size) :
          bufs[b][c[1]][c[2]] = MatrixInit(size, seed)[c[1]][c[2]]
    /\ \A w \in DOMAIN pct :
          (pct[w] = "cell" /\ loc[w].c < thread_data[w + 1].cells) =>
              <<loc[w].i, loc[w].j>> \in Interior(size)
    /\ \A p \in DOMAIN mmatrix : mmatrix[p] # <<>> =>
          \A c \in Border(size) :
              mmatrix[p][c[1] * size + c[2]] = Scale
    /\ \A p \in DOMAIN mpc : mpc[p] \in {"allreduce", "ar_wait", "gather"} =>
          \A r \in DOMAIN recv_buffer[p] :
              (r % size = 0 \/ r % size = size - 1) =>
                  recv_buffer[p][r] = send_buffer[p][size + r]

C6_Witness ==
    /\ engine = "mpi" /\ nprocs >= 2 /\ mpc[Root] = "loop" /\ miter[Root] >= 2
    /\ \E k \in DOMAIN mmatrix[Root] : mmatrix[Root][k] \notin {0, Scale}

\* barrier waits a worker has returned from
Passes(w) ==
    2 * witer[w] + (CASE pct[w] \in {"at2", "wait2"} -> 1
                      [] pct[w] \in {"check", "done"} -> 2
                      [] OTHER -> 0)

\* C7: a thread (process) reads inputs of iteration k + 1 only when the
\* decision of iteration k has been made and every other thread (process)
\* has finished iteration k; no two are more than one phase apart.
C7_IterationOrdering ==
    /\ \A w \in DOMAIN pct :
          (pct[w] = "cell" /\ loc[w].c < thread_data[w + 1].cells /\ witer[w] >= 1) =>
              /\ Len(hist) >= witer[w]
              /\ ~AllTrue(hist[witer[w]])
              /\ \A v \in DOMAIN pct :
                    \/ witer[v] = witer[w]
                    \/ witer[v] = witer[w] - 1 /\ pct[v] = "check"
    /\ \A v, w \in DOMAIN pct :
          (pct[v] # None /\ pct[w] # None) => Passes(v) - Passes(w) \in {-1, 0, 1}
    /\ \A p \in DOMAIN mpc :
          (mpc[p] = "relax" /\ miter[p] >= 1) =>
              /\ Len(mhist) >= miter[p]
              /\ \A q \in DOMAIN mpc : miter[q] >= miter[p]
    /\ \A p, q \in DOMAIN mpc : miter[p] - miter[q] \in {-1, 0, 1}

C7_Witness ==
    /\ engine = "pthread" /\ num_threads >= 2
    /\ \E v, w \in DOMAIN pct :
          /\ pct[w] = "cell" /\ witer[w] = 1 /\ loc[w].c = 1
          /\ pct[v] = "check" /\ witer[v] = 0

\* the cells a thread's next step reads and writes: <<matrix, row, col>>
Computing(w) == pct[w] = "cell" /\ loc[w].c < thread_data[w + 1].cells
WriteSet(w) == {<<thread_data[w + 1].new_matrix, loc[w].i, loc[w].j>>}
ReadSet(w) ==
    LET m == thread_data[w + 1].original_matrix
        i == loc[w].i
        j == loc[w].j
    IN  {<<m, i, j - 1>>, <<m, i, j + 1>>, <<m, i - 1, j>>, <<m, i + 1, j>>, <<m, i, j>>}

\* C8: two threads that can both take a step never touch the same cell of
\* the same matrix when one of them writes it; a thread reads the matrix
\* that is current in its iteration and writes, in the other one, a cell of
\* its own run.
C8_RaceFree ==
    /\ \A v, w \in DOMAIN pct :
          (v # w /\ Computing(v) /\ Computing(w)) =>
              WriteSet(v) \cap (WriteSet(w) \cup ReadSet(w)) = {}
    /\ \A w \in DOMAIN pct : Computing(w) =>
          /\ thread_data[w + 1].original_matrix = witer[w] % 2
          /\ thread_data[w + 1].new_matrix = 1 - (witer[w] % 2)
          /\ \E k \in 1..thread_data[w + 1].cells :
                RunOf(thread_data[w + 1], size)[k] = <<loc[w].i, loc[w].j>>

C8_Witness ==
    /\ engine = "pthread"
    /\ \E v, w \in DOMAIN pct :
          /\ v # w /\ Computing(v) /\ Computing(w)
          /\ witer[v] = 1 /\ witer[w] = 1
          /\ loc[v].c >= 1

\* C9: the global flag is the conjunction of the local flags of the
\* iteration; the loop is left only after an iteration whose flags are all
\* true, and no iteration follows such an iteration (stated for the runs in
\* which threads exist).
C9_GlobalFlagIsAnd ==
    /\ thread_data # <<>> =>
          /\ \A m \in 1..(Len(hist) - 1) : ~AllTrue(hist[m])
          /\ pcm = "decided" => PRECISION_REACHED = AllTrue(hist[Len(hist)])
          /\ pcm \in {"b2", "wait2"} => ~AllTrue(hist[Len(hist)])
          /\ pcm \in {"b3", "wait3", "join", "joined"} => AllTrue(hist[Len(hist)])
          /\ \A w \in DOMAIN pct :
                /\ pct[w] = "done" => AllTrue(hist[witer[w] + 1])
                /\ witer[w] >= 1 => ~AllTrue(hist[witer[w]])
    /\ \A m \in 1..(Len(mhist) - 1) : ~AllTrue(mhist[m])
    /\ \A p \in DOMAIN mpc :
          /\ mpc[p] = "gather" => global_precision[p] = AllTrue(mhist[miter[p] + 1])
          /\ mpc[p] = "loop" => global_precision[p] = AllTrue(mhist[miter[p]])
          /\ mpc[p] = "exit0" => AllTrue(mhist[miter[p]])
          /\ (mpc[p] \in {"scatter", "relax", "allreduce", "ar_wait"} /\ miter[p] >= 1) =>
                ~AllTrue(mhist[miter[p]])

C9_Witness ==
    /\ engine = "pthread" /\ pcm = "decided" /\ num_threads >= 2
    /\ Len(hist) = 2
    /\ \E v, w \in DOMAIN TPR : TPR[v] /\ ~TPR[w]

\* C10: at every decision the matrix just written by W threads has, in
\* every interior cell, the value the run with one thread writes in that
\* iteration, both runs decide alike, and the matrix returned is the one
\* the run with one thread returns.
C10_SameAsOneWorker ==
    (engine = "pthread" /\ size >= 3) =>
        /\ pcm = "decided" =>
              /\ ref.iter = Len(hist)
              /\ ref.conv = PRECISION_REACHED
              /\ \A c \in Interior(size) :
                    bufs[2 - ((Len(hist) - 1) % 2)][c[1]][c[2]]
                        = ref.bufs[2 - ((Len(hist) - 1) % 2)][c[1]][c[2]]
        /\ result.status = "success" =>
              bufs[result.returned + 1] = ref.bufs[result.returned + 1]


\* C11: when convergence is detected in iteration k >= 1, the matrix that
\* relax_matrix_parallel returns is the one the threads wrote in iteration
\* k, and the matrix it frees is the one they read (the values of k - 1).
C11_ReturnsLatestBuffer ==
    (engine = "pthread" /\ result.status = "success") =>
        \A w \in DOMAIN pct :
            /\ result.returned = thread_data[w + 1].new_matrix
            /\ result.freed = {thread_data[w + 1].original_matrix}

\* C12: with a size below 2, a precision not above 0 or (pthread program) a
\* thread count below 1 the program ends with status 1, and no matrix, thread
\* data, flag array, barrier or thread ever exists and no iteration runs.
C12_RejectedBeforeAnyState ==
    /\ (engine = "pthread" /\ (size < 2 \/ precision <= 0 \/ threads_arg < 1)) =>
          /\ pcm \in {"start", "exited"}
          /\ pcm = "exited" => result.status = "error"
          /\ bufs = <<>> /\ thread_data = <<>> /\ TPR = <<>>
          /\ barrier_count = 0 /\ created = 0 /\ pct = <<>>
          /\ iterations = 0 /\ hist = <<>>
    /\ (engine = "mpi" /\ (size < 2 \/ precision <= 0)) =>
          \A p \in Ranks :
              /\ mpc[p] \in {"start", "exit1"}
              /\ mmatrix[p] = <<>> /\ counts[p] = <<>>
              /\ send_buffer[p] = <<>> /\ recv_buffer[p] = <<>>
              /\ miter[p] = 0
          /\ mhist = <<>>

C12_Witness ==
    /\ engine = "pthread" /\ size >= 3 /\ threads_arg >= 1 /\ precision <= 0
    /\ pcm = "exited" /\ result.status = "error"


\* pthread_barrier_wait calls made by a worker / by main, from where it is
WorkerWaits(w) ==
    2 * witer[w] + (CASE pct[w] \in {"wait1", "at2"} -> 1
                      [] pct[w] \in {"wait2", "check", "done"} -> 2
                      [] OTHER -> 0)
MainWaits ==
    CASE pcm \in {"decided", "b2", "b3"} -> 2 * Len(hist) - 1
      [] pcm \in {"wait1", "decide"} -> 2 * Len(hist) + 1
      [] OTHER -> 2 * Len(hist)

\* some recorded decision found the flag of every thread true
ConvergenceSeen == thread_data # <<>> /\ \E k \in 1..Len(hist) : AllTrue(hist[k])

\* main has joined every thread and returned, nobody is left in the barrier
CleanEnd ==
    /\ pcm = "exited" /\ result.status = "success"
    /\ \A w \in DOMAIN pct : pct[w] = "done"
    /\ waiting = {}

\* how far a thread / main has come
WorkerRank(w) ==
    LET cells == thread_data[w + 1].cells
    IN  IF pct[w] = None THEN 0
        ELSE witer[w] * (cells + 7)
             + (CASE pct[w] = "cell" -> 1 + loc[w].c
                  [] pct[w] = "wait1" -> 2 + cells
                  [] pct[w] = "at2" -> 3 + cells
                  [] pct[w] = "wait2" -> 4 + cells
                  [] pct[w] = "check" -> 5 + cells
                  [] pct[w] = "done" -> 6 + cells)
MainRank ==
    CASE pcm = "start" -> 0 [] pcm = "init" -> 1 [] pcm = "relax" -> 2
      [] pcm = "create" -> 3 + created
      [] pcm = "b1" -> 10 + MaxThreads * MaxThreads + 6 * iterations
      [] pcm = "wait1" -> 11 + MaxThreads * MaxThreads + 6 * iterations
      [] pcm = "decide" -> 12 + MaxThreads * MaxThreads + 6 * iterations
      [] pcm = "decided" -> 13 + MaxThreads * MaxThreads + 6 * iterations
      [] pcm = "b2" -> 8 + MaxThreads * MaxThreads + 6 * iterations
      [] pcm = "wait2" -> 9 + MaxThreads * MaxThreads + 6 * iterations
      [] pcm = "b3" -> 14 + MaxThreads * MaxThreads + 6 * iterations
      [] pcm = "wait3" -> 15 + MaxThreads * MaxThreads + 6 * iterations
      [] pcm = "join" -> 16 + MaxThreads * MaxThreads + 6 * iterations
      [] pcm = "joined" -> 17 + MaxThreads * MaxThreads + 6 * iterations
      [] OTHER -> 18 + MaxThreads * MaxThreads + 6 * iterations
\* a step in which main / thread w moves goes forward, and every step is
\* one in which somebody moves
MainMoves == <<pcm, created, iterations>>' # <<pcm, created, iterations>>
WorkerMoves(w) == <<pct[w], loc[w].c, witer[w]>>' # <<pct[w], loc[w].c, witer[w]>>
ShmProgress ==
    /\ MainMoves => MainRank' > MainRank
    /\ \A w \in DOMAIN pct : WorkerMoves(w) => WorkerRank(w)' > WorkerRank(w)
    /\ MainMoves \/ \E w \in DOMAIN pct : WorkerMoves(w)

\* once an iteration has found every flag true the run ends cleanly
C13_EventuallyCleanEnd == ConvergenceSeen ~> CleanEnd

\* C13: the barrier counts the W threads and main; main and every thread
\* call pthread_barrier_wait exactly twice in each iteration, the converged
\* one included; the barrier is destroyed only when every thread has
\* returned; and once an iteration has found every flag true, every thread
\* leaves its loop, main joins them all and nobody stays in the barrier:
\* every step moves the program on, and a state in which convergence was
\* seen and no thread can take a step is the clean end.
C13_BarrierTerminates ==
    /\ [](engine = "pthread" /\ thread_data # <<>> =>
            /\ pcm # "exited" => barrier_count = num_threads + 1
            /\ bwaits[Main] = MainWaits
            /\ \A w \in DOMAIN pct : bwaits[w] = WorkerWaits(w)
            /\ pcm \in {"join", "joined", "exited"} =>
                  \A t \in DOMAIN bwaits : bwaits[t] = 2 * Len(hist)
            /\ barrier_count = 0 =>
                  (waiting = {} /\ \A w \in DOMAIN pct : pct[w] = "done"))
    /\ []((engine = "pthread" /\ ConvergenceSeen /\ ~ENABLED ShmNext) => CleanEnd)
    /\ [][engine = "pthread" => ShmProgress]_vars

C13_Witness ==
    /\ engine = "pthread" /\ num_threads >= 2 /\ Len(hist) >= 2
    /\ CleanEnd


\* the first c cells of thread w's run all differ, between the matrix it
\* reads and the matrix it writes, by at most the precision
RunUnchanged(w, c) ==
    LET td  == thread_data[w + 1]
        run == RunOf(td, size)
    IN  \A k \in 1..c :
            Abs(bufs[td.new_matrix + 1][run[k][1]][run[k][2]]
                - bufs[td.original_matrix + 1][run[k][1]][run[k][2]]) <= precision

\* every cell of process p's chunk that is not on the left or right side
\* differs, between send_buffer and recv_buffer, by at most the precision
ChunkUnchanged(p) ==
    \A r \in DOMAIN recv_buffer[p] :
        ~(r % size = 0 \/ r % size = size - 1) =>
            Abs(recv_buffer[p][r] - send_buffer[p][size + r]) <= precision

C14_FlagState ==
    /\ \A w \in DOMAIN pct :
          /\ pct[w] = "cell" => (TPR[w] <=> RunUnchanged(w, loc[w].c))
          /\ (pct[w] = "wait1" \/ (pct[w] # None /\ pcm = "decide")) =>
                (TPR[w] <=> RunUnchanged(w, thread_data[w + 1].cells))
          /\ pcm = "decided" =>
                /\ pct[w] \in {"at2", "wait2"}
                /\ hist[Len(hist)][w] <=> RunUnchanged(w, thread_data[w + 1].cells)
    /\ \A p \in DOMAIN mpc :
          mpc[p] = "allreduce" => (local_precision[p] <=> ChunkUnchanged(p))
    /\ \A k \in 1..Len(mhist) : \A p \in DOMAIN mhist[k] :
          (Len(mhist) = k /\ mpc[p] \in {"ar_wait", "gather"} /\ miter[p] = k - 1) =>
              (mhist[k][p] <=> ChunkUnchanged(p))

C14_FlagStep ==
    \A w \in DOMAIN TPR :
        /\ (TPR[w] /\ ~TPR'[w]) =>
              (pct[w] = "cell" /\ loc'[w].c = loc[w].c + 1 /\ pcm' = pcm)
        /\ (~TPR[w] /\ TPR'[w]) =>
              /\ pcm = "decided" /\ pcm' = "b2"
              /\ \A v \in DOMAIN pct : pct[v] \in {"at2", "wait2"}

\* C14: when main evaluates iteration k, thread w's flag is true exactly
\* when every cell w computed in iteration k changed by at most the
\* precision (so it is true when w starts an iteration); the flag of w is
\* cleared only by a step of w, and the flags are set again only by main
\* between the two barrier phases, while no thread computes.  In the mpi
\* program the flag a process contributes is true exactly when every cell of
\* its chunk changed by at most the precision.
C14_FlagLifecycle == []C14_FlagState /\ [][C14_FlagStep]_vars

C14_Witness ==
    /\ engine = "pthread" /\ pcm = "decide" /\ Len(hist) = 1
    /\ \E v, w \in DOMAIN pct :
          /\ ~hist[1][w] /\ TPR[w]
          /\ ~TPR[v]


\* the order of a process's positions inside relax_matrix_parallel's loop
LoopOrder ==
    {<<"scatter", "relax">>, <<"relax", "allreduce">>, <<"allreduce", "ar_wait">>,
     <<"ar_wait", "gather">>, <<"gather", "loop">>, <<"loop", "scatter">>,
     <<"loop", "exit0">>}

\* the iteration whose MPI_Allreduce process p has completed last (0: none)
ReducedRounds(p) == IF mpc[p] = "gather" THEN miter[p] + 1 ELSE miter[p]

C15_MatchedState ==
    \A p \in DOMAIN mpc :
        /\ (mpc[p] \in {"gather", "loop", "exit0"} /\ ReducedRounds(p) >= 1) =>
              /\ Len(mhist) >= ReducedRounds(p)
              /\ global_precision[p] = AllTrue(mhist[ReducedRounds(p)])
        /\ mpc[p] = "exit0" =>
              \A q \in DOMAIN mpc :
                  /\ mpc[q] \in {"ar_wait", "gather", "loop", "exit0"}
                  /\ ReducedRounds(q) = miter[p] \/ (mpc[q] = "ar_wait" /\ miter[q] = miter[p] - 1)
                  /\ mpc[q] = "ar_wait" => DOMAIN ar_val = Ranks
                  /\ mpc[q] = "exit0" => miter[q] = miter[p]
        /\ (mpc[p] = "scatter" /\ p # Root) =>
              \/ p \in DOMAIN sc_msg
              \/ mpc[Root] \in {"start", "setup"} /\ miter[p] = 0
              \/ /\ mpc[Root] \in {"scatter", "ar_wait", "gather", "loop"}
                 /\ mpc[Root] = "ar_wait" => miter[Root] = miter[p] - 1
                 /\ mpc[Root] \in {"gather", "loop"} => ReducedRounds(Root) = miter[p]
                 /\ mpc[Root] = "loop" => ~global_precision[Root]
                 /\ mpc[Root] = "scatter" => miter[Root] = miter[p]

C15_MatchedStep ==
    \A p \in DOMAIN mpc :
        /\ (mpc'[p] # mpc[p] /\ mpc[p] \notin {"start", "setup"}) =>
              <<mpc[p], mpc'[p]>> \in LoopOrder
        /\ miter'[p] # miter[p] =>
              (mpc[p] = "gather" /\ mpc'[p] = "loop" /\ miter'[p] = miter[p] + 1)

\* process p is inside the collective at position c
InCollective(p, c) == p \in DOMAIN mpc /\ mpc[p] = c

\* how far a process has come
ProcessRank(p) ==
    CASE mpc[p] = "start" -> 0 [] mpc[p] = "setup" -> 1 [] mpc[p] = "exit1" -> 2
      [] mpc[p] = "scatter" -> 10 + 7 * miter[p]
      [] mpc[p] = "relax" -> 11 + 7 * miter[p]
      [] mpc[p] = "allreduce" -> 12 + 7 * miter[p]
      [] mpc[p] = "ar_wait" -> 13 + 7 * miter[p]
      [] mpc[p] = "gather" -> 14 + 7 * miter[p]
      [] mpc[p] = "loop" -> 8 + 7 * miter[p]
      [] mpc[p] = "exit0" -> 9 + 7 * miter[p]
\* a step in which process p moves goes forward, and every step is one in
\* which some process moves
ProcessMoves(p) == <<mpc[p], miter[p]>>' # <<mpc[p], miter[p]>>
MpiProgress ==
    /\ \A p \in DOMAIN mpc : ProcessMoves(p) => ProcessRank(p)' > ProcessRank(p)
    /\ \E p \in DOMAIN mpc : ProcessMoves(p)

\* no process stays for ever in the all-reduce or in the gather, and when
\* one process has left the loop all of them do
C15_EventuallyMatched ==
    /\ \A p \in 0..MaxProcs :
          /\ []<>~InCollective(p, "ar_wait")
          /\ []<>~InCollective(p, "gather")
    /\ []<>((\E p \in DOMAIN mpc : mpc[p] = "exit0") => (\A p \in DOMAIN mpc : mpc[p] = "exit0"))

\* C15: in every iteration every process goes through the scatter, the
\* computation, the all-reduce and the gather in this order; the processes
\* that completed the same all-reduce hold the same global flag, so all leave
\* the loop after the same number of iterations; a process that waits in a
\* collective is never left there: every step moves a process on, and in a
\* state in which no process can take a step none is in the all-reduce or
\* the gather, and if one has left the loop all have.
C15_CollectivesMatched ==
    /\ []C15_MatchedState
    /\ [][C15_MatchedStep]_vars
    /\ []((engine = "mpi" /\ ~ENABLED MpiNext) =>
            /\ \A p \in DOMAIN mpc : mpc[p] \notin {"ar_wait", "gather"}
            /\ (\E p \in DOMAIN mpc : mpc[p] = "exit0") =>
                  (\A p \in DOMAIN mpc : mpc[p] = "exit0"))
    /\ [][engine = "mpi" => MpiProgress]_vars

C15_Witness ==
    /\ engine = "mpi" /\ nprocs >= 2 /\ mhist # <<>>
    /\ \E p, q \in Ranks : mhist[Len(mhist)][p] /\ ~mhist[Len(mhist)][q]
    /\ \A p \in Ranks :
          mpc[p] = "scatter" /\ miter[p] = Len(mhist) /\ ~global_precision[p]


\* one Jacobi step of a flat n * n matrix: every interior cell becomes the
\* average of its four neighbours, every cell of the four sides is kept
JacobiStep(m, n) ==
    [k \in DOMAIN m |->
        IF (k \div n) \in 1..(n - 2) /\ (k % n) \in 1..(n - 2)
        THEN (m[k - n] + m[k + n] + m[k - 1] + m[k + 1]) \div 4
        ELSE m[k]]

RECURSIVE JacobiIter(_, _, _)
JacobiIter(m, n, k) == IF k = 0 THEN m ELSE JacobiIter(JacobiStep(m, n), n, k - 1)

\* C16: with 1 <= P <= N - 2 processes, a gather at the root replaces the
\* root's matrix by one Jacobi step of the matrix it scattered, whatever P
\* is: after k iterations the root holds the k-th Jacobi iterate of the
\* initial matrix.
C16_GatherIsJacobiStep ==
    /\ [](engine = "mpi" =>
            \A p \in DOMAIN mmatrix :
                (p = Root /\ mmatrix[p] # <<>>) =>
                    mmatrix[p] = JacobiIter(MpiMatrixInit(size), size, miter[p]))
    /\ [][engine = "mpi" =>
            \A p \in DOMAIN mmatrix :
                (p = Root /\ mmatrix[p] # <<>> /\ mmatrix'[p] # mmatrix[p]) =>
                    /\ mpc[p] = "gather" /\ mpc'[p] = "loop"
                    /\ mmatrix'[p] = JacobiStep(mmatrix[p], size)]_vars

C16_Witness ==
    /\ engine = "mpi" /\ size >= 5 /\ nprocs >= 2 /\ (size - 2) % nprocs # 0
    /\ mpc[Root] = "loop" /\ miter[Root] >= 2
    /\ mmatrix[Root] # JacobiStep(MpiMatrixInit(size), size)


\* the two matrix pointers of thread w
Pointers(td, w) == <<td[w + 1].original_matrix, td[w + 1].new_matrix>>

C17_SwapState ==
    \A w \in DOMAIN pct : pct[w] # None =>
        /\ Pointers(thread_data, w) = <<witer[w] % 2, 1 - (witer[w] % 2)>>
        /\ pct[w] \in {"cell", "wait1"} => witer[w] = Len(hist)
        /\ pct[w] \in {"at2", "wait2"} => witer[w] \in {Len(hist), Len(hist) - 1}
        /\ pct[w] \in {"check", "done"} => witer[w] = Len(hist) - 1
        /\ pct[w] = "done" => AllTrue(hist[Len(hist)])
        /\ \A v \in DOMAIN pct : pct[v] # None =>
              /\ witer[v] = witer[w] => Pointers(thread_data, v) = Pointers(thread_data, w)
              /\ witer[v] = witer[w] + 1 =>
                    thread_data[v + 1].original_matrix = thread_data[w + 1].new_matrix

C17_SwapStep ==
    thread_data # <<>> =>
        \A w \in DOMAIN pct :
            Pointers(thread_data', w) # Pointers(thread_data, w) =>
                /\ pct[w] = "check" /\ pct'[w] = "cell"
                /\ bwaits[w] = 2 * (witer[w] + 1)
                /\ ~PRECISION_REACHED /\ ~AllTrue(hist[Len(hist)])
                /\ witer'[w] = witer[w] + 1
                /\ Pointers(thread_data', w) =
                      <<thread_data[w + 1].new_matrix, thread_data[w + 1].original_matrix>>

\* C17: a thread swaps its two matrix pointers once after every iteration
\* that did not converge, after its second barrier wait, and not after the
\* converged one; the threads in iteration k use the same matrix as current
\* and the same as next, and the current matrix of k + 1 is the next of k.
C17_SwapConsistency == []C17_SwapState /\ [][C17_SwapStep]_vars

C17_Witness ==
    /\ engine = "pthread" /\ num_threads >= 2
    /\ \E v, w \in DOMAIN pct :
          /\ pct[w] = "cell" /\ witer[w] = 2 /\ loc[w].c >= 1
          /\ pct[v] = "check" /\ witer[v] = 1


\* C18: the test of the flag does not leave a cell out: a thread or process
\* writes the average of the four neighbours for every cell of its run or
\* chunk, also after its flag has become false; what it writes depends on
\* the matrix it reads alone.
C18_EveryCellWritten ==
    /\ \A w \in DOMAIN pct :
          pct[w] \in {"cell", "wait1", "at2", "wait2"} =>
              LET td   == thread_data[w + 1]
                  run  == RunOf(td, size)
                  done == IF pct[w] = "cell" THEN loc[w].c ELSE td.cells
                  orig == bufs[td.original_matrix + 1]
              IN  \A k \in 1..done :
                      bufs[td.new_matrix + 1][run[k][1]][run[k][2]] =
                          (orig[run[k][1]][run[k][2] - 1] + orig[run[k][1]][run[k][2] + 1]
                           + orig[run[k][1] - 1][run[k][2]] + orig[run[k][1] + 1][run[k][2]])
                          \div 4
    /\ \A p \in DOMAIN mpc :
          mpc[p] \in {"allreduce", "ar_wait", "gather"} =>
              /\ DOMAIN recv_buffer[p] = 0..(counts[p][p + 1].gather_count - 1)
              /\ \A r \in DOMAIN recv_buffer[p] :
                    recv_buffer[p][r] =
                        IF r % size = 0 \/ r % size = size - 1
                        THEN send_buffer[p][size + r]
                        ELSE (send_buffer[p][r] + send_buffer[p][r + 2 * size]
                              + send_buffer[p][size + r - 1]
                              + send_buffer[p][size + r + 1]) \div 4

C18_Witness ==
    /\ engine = "mpi"
    /\ \E p \in Ranks :
          /\ mpc[p] = "allreduce" /\ ~local_precision[p]
          /\ \E r1, r2 \in DOMAIN recv_buffer[p] :
                /\ r1 < r2 /\ r1 % size \notin {0, size - 1} /\ r2 % size \notin {0, size - 1}
                /\ Abs(recv_buffer[p][r1] - send_buffer[p][size + r1]) > precision
                /\ recv_buffer[p][r2] # send_buffer[p][size + r2]
                /\ recv_buffer[p][r2] # 0


\* a step in which thread w passes a cell / process p runs relax_cells
CellStep(w) == pct[w] = "cell" /\ loc'[w].c = loc[w].c + 1
RelaxStep(p) == mpc[p] = "relax" /\ mpc'[p] = "allreduce"

C19_WorkerFrame ==
    /\ \A w \in DOMAIN pct : CellStep(w) =>
          LET td == thread_data[w + 1]
          IN  /\ bufs'[td.original_matrix + 1] = bufs[td.original_matrix + 1]
              /\ \A i, j \in 0..(size - 1) :
                    bufs'[td.new_matrix + 1][i][j] # bufs[td.new_matrix + 1][i][j] =>
                        /\ <<i, j>> = <<loc[w].i, loc[w].j>>
                        /\ \E k \in 1..td.cells : RunOf(td, size)[k] = <<i, j>>
              /\ \A v \in DOMAIN TPR : v # w => TPR'[v] = TPR[v]
              /\ \A v \in DOMAIN pct : v # w => loc'[v] = loc[v]
              /\ UNCHANGED <<PRECISION_REACHED, thread_data, num_threads, pcm, pct,
                             waiting, barrier_count, created, iterations, result>>
    /\ \A p \in DOMAIN mpc : RelaxStep(p) =>
          /\ \A q \in DOMAIN mpc : q # p =>
                /\ recv_buffer'[q] = recv_buffer[q]
                /\ local_precision'[q] = local_precision[q]
                /\ mpc'[q] = mpc[q]
          /\ UNCHANGED <<send_buffer, mmatrix, counts, global_precision, miter, nprocs,
                         sc_msg, g_msg, ar_val, ar_left>>

Assignment(t) == <<t.id, t.start_i, t.start_j, t.cells>>

\* the threads that exist
Started == {w \in DOMAIN pct : pct[w] # None}

C20_PoolState ==
    (engine = "pthread" /\ thread_data # <<>>) =>
        /\ Len(thread_data) = num_threads
        /\ Started = 0..(created - 1)
        /\ created <= num_threads
        /\ pcm # "create" => created = num_threads
        /\ created < num_threads =>
              /\ pcm = "create" /\ hist = <<>> /\ iterations = 0
              /\ \A w \in Started : pct[w] \in {"cell", "wait1"} /\ witer[w] = 0

C20_PoolStep ==
    (engine = "pthread" /\ thread_data # <<>>) =>
        /\ num_threads' = num_threads
        /\ Len(thread_data') = Len(thread_data)
        /\ \A k \in 1..Len(thread_data) :
              Assignment(thread_data'[k]) = Assignment(thread_data[k])
        /\ \A w \in DOMAIN pct : pct[w] # None => pct'[w] # None
        /\ created' # created =>
              /\ created' = created + 1
              /\ pcm = "create" /\ hist = <<>> /\ iterations = 0
              /\ pct[created] = None /\ pct'[created] = "cell"

\* C20: the num_threads threads are created one by one, each once, before
\* main enters its loop and before any barrier phase completes, and none is
\* created later; the id, start and cell count given to a thread by
\* determine_thread_data never change: between iterations only the two
\* matrix pointers do.
C20_StaticPoolAndPartition == []C20_PoolState /\ [][C20_PoolStep]_vars

C20_Witness ==
    /\ engine = "pthread" /\ num_threads >= 2 /\ iterations >= 1
    /\ created = num_threads
    /\ \E w \in DOMAIN pct :
          /\ pct[w] = "cell" /\ witer[w] >= 1 /\ loc[w].c >= 1
          /\ thread_data[w + 1].original_matrix = 1


\* C21: one iteration of serial_average_matrix recomputes every interior
\* cell (rows 1..N-2, columns 1..N-2) with the average the threads compute,
\* and goes on exactly when some interior cell changed by more than the
\* precision.
C21_SerialSameSweep ==
    (engine = "serial" /\ spc = "loop" /\ iteration >= 1) =>
        LET written == sbufs[sptr.matrix + 1]
            read    == sbufs[sptr.new_matrix + 1]
        IN  /\ \A cell \in Interior(size) :
                  written[cell[1]][cell[2]] = Average(read, cell[1], cell[2])
            /\ still_changing <=>
                  \E cell \in Interior(size) :
                      OutsidePrecision(read, cell[1], cell[2], precision)

\* C22: the cells that no thread ever rewrites are exactly those of the top
\* row and of the left column, and they hold 1 in both matrices; every
\* other cell of the matrix lies in some thread's run.
C22_FixedTopAndLeft ==
    (engine = "pthread" /\ thread_data # <<>>) =>
        \A cell \in (0..(size - 1)) \X (0..(size - 1)) :
            IF cell[1] = 0 \/ cell[2] = 0
            THEN /\ Assignments(thread_data, size, cell) = {}
                 /\ \A b \in DOMAIN bufs : bufs[b][cell[1]][cell[2]] = Scale
            ELSE Assignments(thread_data, size, cell) # {}

\* C23: once the second matrix exists, the two matrices hold the same value
\* in every cell that lies in no thread's run (every edge cell, and any
\* interior cell left out of the runs), in every reachable state.
C23_UnwrittenCellsAgree ==
    (engine = "pthread" /\ Len(bufs) = 2 /\ thread_data # <<>>) =>
        \A cell \in (0..(size - 1)) \X (0..(size - 1)) :
            Assignments(thread_data, size, cell) = {} =>
                bufs[1][cell[1]][cell[2]] = bufs[2][cell[1]][cell[2]]

\* a pass has been completed, the matrices differ in a cell that is written,
\* and an interior cell lies outside every run
C23_Witness ==
    /\ engine = "pthread" /\ Len(bufs) = 2 /\ thread_data # <<>>
    /\ iterations >= 1
    /\ \E cell \in Interior(size) :
          /\ Assignments(thread_data, size, cell) # {}
          /\ bufs[1][cell[1]][cell[2]] # bufs[2][cell[1]][cell[2]]
    /\ \E cell \in Interior(size) : Assignments(thread_data, size, cell) = {}

\* C24: in every run of the pthread program whose arguments passed the
\* validation the number of threads after the clamp is at least 1,
\* determine_thread_data never divides by zero, the run does not end in a
\* fault, and a run for size 2 that has ended has ended with success and
\* its matrix as it was initialised.
C24_ValidatedRuns ==
    (engine = "pthread" /\ ~InvalidArgs(size, precision, threads_arg) /\ pcm # "start") =>
        /\ num_threads >= 1
        /\ pcm = "relax" => num_threads # 0
        /\ result.status # "fault"
        /\ (size = 2 /\ ~ENABLED ShmNext) =>
              /\ pcm = "exited" /\ result.status = "success"
              /\ bufs[result.returned + 1] = MatrixInit(size, seed)

\* an int that holds the value w
Holds(x, w) == x >= 0 /\ Wide(x) = w

\* the rows of process i, and the rows of the processes before it
RowsOf(n, np, i) == (n - 2) \div np + (IF i < (n - 2) % np THEN 1 ELSE 0)
RowsBefore(n, np, i) ==
    i * ((n - 2) \div np) + (IF i < (n - 2) % np THEN i ELSE (n - 2) % np)

\* C25: for every accepted size and count, cells_per_thread and every
\* thread_data[i].cells hold (size - 2)^2 / num_threads (one more for the
\* threads given a cell of the remainder), and scatter_count,
\* scatter_displ, gather_count, gather_displ and relax_cells' start and end
\* hold the products of rows and size they stand for: none has left the
\* range of int.
C25_PartitionFitsInt ==
    engine = "arith" =>
        /\ apc = "threads" =>
              LET q == WDivMod(InnerCells64(size), Wide(cells32.num_threads)).q
              IN  /\ Holds(cells32.cells_per_thread, q)
                  /\ \A i \in 1..Len(cells32.cells) :
                        \/ Holds(cells32.cells[i], q)
                        \/ Holds(cells32.cells[i], WAdd(q, Wide(1)))
        /\ apc \in {"counts", "ranges"} =>
              \A i \in 1..Len(counts32) :
                  LET rows   == Wide(RowsOf(size, acount, i - 1))
                      before == Wide(RowsBefore(size, acount, i - 1))
                      n      == Wide(size)
                  IN  /\ Holds(counts32[i].scatter_count, WMul(WAdd(rows, Wide(2)), n))
                      /\ Holds(counts32[i].scatter_displ, WMul(before, n))
                      /\ Holds(counts32[i].gather_count, WMul(rows, n))
                      /\ Holds(counts32[i].gather_displ, WMul(WAdd(before, Wide(1)), n))
        /\ apc = "ranges" =>
              \A i \in 1..Len(range32) :
                  LET rows == Wide(RowsOf(size, acount, i - 1))
                      n    == Wide(size)
                  IN  /\ Holds(range32[i].start, n)
                      /\ Holds(range32[i].end,
                               WSub(WMul(WAdd(rows, Wide(1)), n), Wide(1)))

====
